---- MODULE Spec2Model ----
(***************************************************************************)
(* Model of the Truthdb orchestrator: release_iso::run (two-phase          *)
(* preflight/apply over the seven repositories),                           *)
(* GitHub::wait_for_release_assets (the asset-readiness poller), the       *)
(* ChannelReporter with its channel, tui::run with handle_ui_event (the    *)
(* UI loop), main (worker thread, UI on the main thread, join) and         *)
(* monitor::run (the fleet monitor).                                       *)
(*                                                                         *)
(* Results of git commands, of the hosting-service API, of the terminal    *)
(* and of the environment are inputs, drawn at the call.  Time is the      *)
(* monotonic clock read by Instant::now(); it advances in                  *)
(* std::thread::sleep.                                                     *)
(***************************************************************************)
EXTENDS Integers, Sequences, FiniteSets, TLC

VARIABLES
    pc,            \* position in run / wait_for_release_assets
    caller,        \* "run": the poller was called by run; "direct": called on its own
    dry_run,       \* args.dry_run
    timeout,       \* args.timeout, in clock units
    resume,        \* args.resume
    token,         \* TRUE iff GITHUB_TOKEN or GH_TOKEN yields a non-empty string
    idx,           \* index of the repo the current loop iteration is on (1..NumRepos)
    remote_tagged, \* the BTreeMap of preflight: set of <<repo, bool>> entries
    gh,            \* TRUE iff the hosting-service client has been constructed
    err,           \* "none", or the error run (or the poller) returned
    errAssets,     \* asset names enumerated by the error message of a timeout
    narr,          \* events run has handed to the reporter
    calls,         \* the calls made so far: <<repo, operation>>
    pushed,        \* repos for which push_tag was called, in call order
    local_tag,     \* what the local tag last looked up or created in apply points at
    preflighted,   \* repos whose preflight iteration ran to its end
    waited,        \* repos whose asset wait returned Ok
    waitStart,     \* the clock when wait_for_release_assets was called
    now,           \* the clock
    deadline,      \* wait_for_release_assets: deadline
    last_sizes,    \* wait_for_release_assets: Option<BTreeMap>: <<>> or <<map>>
    stable_count,  \* wait_for_release_assets: stable_count
    tickLog,       \* what the last two ticks of the current wait observed
    prevFull,      \* <<map>> of the latest earlier tick that saw every expected
                   \* asset with size > 0 (the last tick excluded), or <<>>
    nTicks,        \* ticks of the current wait
    allFull,       \* TRUE iff every tick of the current wait saw every expected
                   \* asset with size > 0
    use_tui,       \* main: the reporter is a ChannelReporter and the UI runs
    auto_exit,     \* cli.auto_exit
    chan,          \* the unbounded channel: events sent and not yet received
    rxAlive,       \* TRUE iff the Receiver has not been dropped
    sent,          \* every event handed to Sender::send, in order
    mpc,           \* position of the main thread (inside tui::run, or after it)
    state,         \* tui::run: AppState
    ui_res,        \* what tui::run returned: "none" (not yet), "ok" or "err"
    exit_code,     \* exit code of the process, -1 while it runs
    stderr,        \* what main wrote to stderr after the UI was torn down
    rows,          \* monitor::run: rows, the Vec<RepoStatusRow>
    shutdown,      \* monitor::run: the shared AtomicBool
    slept,         \* monitor::run: slept, in slices of 200 ms
    show_loading,  \* refresh_rows_incremental: show_loading
    pass,          \* refresh passes begun so far
    odd            \* the odd rows published so far, each with its repo

vars == <<pc, caller, dry_run, timeout, resume, token, idx, remote_tagged, gh, err,
          errAssets, narr, calls, pushed, local_tag, preflighted, waited,
          waitStart, now, deadline, last_sizes, stable_count, tickLog, prevFull, nTicks,
          allFull, use_tui, auto_exit, chan, rxAlive, sent, mpc, state, ui_res,
          exit_code, stderr, rows, shutdown, slept, show_loading, pass, odd>>

argVars  == <<dry_run, timeout, resume, token>>
\* what belongs to the main thread: no step of the worker writes it
mainVars == <<use_tui, auto_exit, rxAlive, mpc, state, ui_res, exit_code, stderr>>
\* what belongs to monitor::run
monVars  == <<rows, shutdown, slept, show_loading, pass, odd>>
hostVars == <<argVars, mainVars, monVars>>
\* what a call of the reporter writes
repVars  == <<narr, chan, sent>>
\* the tags pushed and the local tag at hand
pushVars == <<pushed, local_tag>>
runVars  == <<hostVars, remote_tagged, gh, pushVars, preflighted>>

----------------------------------------------------------------------------
(* Bounds of the model *)

PollInterval == 1   \* args.poll_interval, in clock units
RunTimeout   == 1   \* args.timeout of a run, in clock units
MaxTimeout   == 2   \* args.timeout of a directly called wait is 1..MaxTimeout
WaitRepos    == 2   \* a directly called wait is for one of the repos 1..WaitRepos
MaxJitter    == 1   \* how much longer than poll_interval a sleep may take
MaxSize      == 2   \* asset sizes are 0..MaxSize
MaxAssets    == 2   \* length of the asset list of a release
MaxStart     == 1   \* clock value at which a directly called wait may start
MaxScroll    == 1   \* help_scroll is 0..MaxScroll
MaxEvents    == 3   \* events a producer sends to the UI on its own

(* Program constants *)

NumRepos == 7

repos_in_order ==
    << "installer-kernel", "installer", "truthdb", "truthdb-cli",
       "truthdb-net", "truthdb-proto", "installer-iso" >>

Repos == 1..NumRepos

expected_assets(i) ==
    CASE repos_in_order[i] = "installer-kernel" -> << "BOOTX64.EFI" >>
      [] repos_in_order[i] = "installer" ->
            << "truthdb-installer-vV-x86_64-linux-musl.tar.gz",
               "truthdb-installer-vV-x86_64-linux-musl.sha256" >>
      [] repos_in_order[i] = "truthdb" ->
            << "truthdb-vV-x86_64-linux-gnu.tar.gz",
               "truthdb-vV-x86_64-linux-gnu.sha256" >>
      [] repos_in_order[i] = "truthdb-cli" ->
            << "truthdb-cli-vV-x86_64-linux-gnu.tar.gz",
               "truthdb-cli-vV-x86_64-linux-gnu.sha256" >>
      [] repos_in_order[i] = "truthdb-net" ->
            << "truthdb-net-vV-x86_64-linux-gnu.tar.gz",
               "truthdb-net-vV-x86_64-linux-gnu.sha256" >>
      [] repos_in_order[i] = "truthdb-proto" ->
            << "truthdb-proto-vV-x86_64-linux-gnu.tar.gz",
               "truthdb-proto-vV-x86_64-linux-gnu.sha256" >>
      [] repos_in_order[i] = "installer-iso" ->
            << "truthdb-installer-vV.iso",
               "truthdb-installer-vV.iso.sha256" >>
      [] OTHER -> << >>

Range(s) == { s[k] : k \in 1..Len(s) }

----------------------------------------------------------------------------
(* Reporter events: <<kind, title, repo, assets>> *)

Ev(kind, title, i, assets) == << kind, title, i, assets >>

StepEv(title, i)   == Ev("step", title, i, << >>)
UpdateEv(title, i) == Ev("update", title, i, << >>)

----------------------------------------------------------------------------
(* UiEvent, ChannelReporter and the channel.  Texts are sequences of      *)
(* strings: a title with the repo it names, then the asset names.         *)

SetStep(title, body) == [ type |-> "SetStep", title |-> title, body |-> body ]
UpdateBody(body)     == [ type |-> "UpdateBody", body |-> body ]
SetOk(msg)           == [ type |-> "SetOk", msg |-> msg ]
SetError(msg)        == [ type |-> "SetError", msg |-> msg ]
SetRepos(rs)         == [ type |-> "SetRepos", rows |-> rs ]
Finished(ok)         == [ type |-> "Finished", ok |-> ok ]

\* impl Reporter for ChannelReporter: the UiEvent each method sends
ToUi(ev) ==
    CASE ev[1] = "step"   -> SetStep(<< ev[2], ToString(ev[3]) >>, ev[4])
      [] ev[1] = "update" -> UpdateBody(<< ev[2], ToString(ev[3]) >> \o ev[4])
      [] ev[1] = "ok"     -> SetOk(ev[2])
      [] OTHER            -> SetError(ev[2])

ToUis(evs) == [ k \in 1..Len(evs) |-> ToUi(evs[k]) ]

\* mutant: a send waits for a receiver
Send_Blocking(uis) ==
    /\ uis # << >> => rxAlive
    /\ sent' = sent \o uis
    /\ chan' = chan \o uis

\* let _ = self.tx.send(ev): the channel is unbounded, so send returns at
\* once; with the Receiver dropped it returns Err, which is discarded
Send(uis) ==
    /\ sent' = sent \o uis
    /\ chan' = IF rxAlive THEN chan \o uis ELSE chan

\* the calls of the reporter an action makes, in order
Report(evs) ==
    /\ narr' = narr \cup Range(evs)
    /\ IF use_tui THEN Send(ToUis(evs)) ELSE UNCHANGED << chan, sent >>

----------------------------------------------------------------------------
(* The preflight snapshot: a map from repo to bool *)

\* mutant: a repo whose tag is on the remote is left out of the snapshot
MapInsert_SkipTagged(m, k, v) ==
    IF v THEN m ELSE { p \in m : p[1] # k } \cup { << k, v >> }

MapInsert(m, k, v) == { p \in m : p[1] # k } \cup { << k, v >> }

MapHas(m, k) == \E p \in m : p[1] = k

MapGet(m, k) == (CHOOSE p \in m : p[1] = k)[2]

\* mutant: the snapshot is read as "not tagged" for every repo
already_remote_tagged_Unset(i) == FALSE

\* *remote_tagged.get(&repo.name).unwrap_or(&false)
already_remote_tagged(i) ==
    IF MapHas(remote_tagged, i) THEN MapGet(remote_tagged, i) ELSE FALSE

----------------------------------------------------------------------------
(* The hosting service: what get_release_by_tag may answer for repo i *)

AssetNames(i) == Range(expected_assets(i)) \cup { "notes.txt" }

AssetRecs(i) == [ name : AssetNames(i), size : 0..MaxSize ]

AssetLists(i) == UNION { [ 1..n -> AssetRecs(i) ] : n \in 0..MaxAssets }

\* Err(_): request failed, 401/403, other non-success status, bad JSON;
\* Ok(None): 404;  Ok(Some(release)): a release with its asset list
Responses(i) ==
    { [ status |-> "error", assets |-> << >> ],
      [ status |-> "absent", assets |-> << >> ] }
    \cup { [ status |-> "ok", assets |-> a ] : a \in AssetLists(i) }

\* The answers the backend gives while run is waiting: a failure, no release
\* yet, the first expected asset only with its upload unfinished, or every
\* expected asset uploaded.
FullRelease(i, sz) ==
    [ k \in 1..Len(expected_assets(i)) |->
        [ name |-> expected_assets(i)[k], size |-> sz ] ]

RunResponses(i) ==
    { [ status |-> "error", assets |-> << >> ],
      [ status |-> "absent", assets |-> << >> ],
      [ status |-> "ok", assets |-> SubSeq(FullRelease(i, 0), 1, 1) ],
      [ status |-> "ok", assets |-> FullRelease(i, 1) ] }

----------------------------------------------------------------------------
(* wait_for_release_assets: the pure parts *)

\* for asset in &release.assets { sizes.insert(asset.name, asset.size) }
RECURSIVE SizesOf(_)
SizesOf(assets) ==
    IF assets = << >> THEN {}
    ELSE LET n == Len(assets)
         IN  MapInsert(SizesOf(SubSeq(assets, 1, n - 1)),
                       assets[n].name, assets[n].size)

\* match sizes.get(expected) { Some(sz) if *sz > 0 => {}, _ => missing.push(..) }
IsMissing(sizes, name) ==
    ~ (MapHas(sizes, name) /\ MapGet(sizes, name) > 0)

Missing(expected, sizes) ==
    SelectSeq(expected, LAMBDA name : IsMissing(sizes, name))

\* mutant: one deadline for the whole run, counted from its start
NewDeadline_FromRunStart(t) == timeout

\* let deadline = Instant::now() + timeout
NewDeadline(t) == t + timeout

\* mutant: the deadline check is late by one clock unit
DeadlinePassed_Late(t, d) == t > d + 1

\* if Instant::now() > deadline
DeadlinePassed(t, d) == t > d

\* if last_sizes.as_ref() == Some(&sizes) { stable_count += 1 }
\* else { stable_count = 0; last_sizes = Some(sizes) }
SameAsLast(last, sizes) == last = << sizes >>

NextStable(last, count, sizes) ==
    IF SameAsLast(last, sizes) THEN count + 1 ELSE 0

\* mutant: a changed size map does not replace the baseline
NextLast_KeepFirst(last, sizes) ==
    IF last = << >> THEN << sizes >> ELSE last

NextLast(last, sizes) ==
    IF SameAsLast(last, sizes) THEN last ELSE << sizes >>

\* mutant: ready as soon as every asset is there
IsReady_AtOnce(count) == count >= 0

\* mutant: ready needs the counter at 2
IsReady_Twice(count) == count >= 2

\* if stable_count >= 1
IsReady(count) == count >= 1

\* what a tick saw: kept for the last two ticks of the current wait
Obs(resp) == [ status |-> resp.status, sizes |-> SizesOf(resp.assets) ]

\* mutant: the timeout message lists what the last tick found missing
TimeoutAssets_Missing(i) ==
    Missing(expected_assets(i),
            IF tickLog = << >> THEN {} ELSE tickLog[Len(tickLog)].sizes)

\* bail!("Timed out waiting for ... assets: {:?}", expected_assets)
TimeoutAssets(i) == expected_assets(i)

Log(log, o) ==
    IF Len(log) < 2 THEN Append(log, o) ELSE << log[2], o >>

\* every expected asset is in the map with a size above 0
FullyPresent(i, sizes) ==
    \A n \in Range(expected_assets(i)) : \E p \in sizes : p[1] = n /\ p[2] > 0

FullObs(i, o) == o.status = "ok" /\ FullyPresent(i, o.sizes)

ghostVars == << tickLog, prevFull, nTicks, allFull >>

\* the record of a tick
Observe(resp) ==
    /\ tickLog' = Log(tickLog, Obs(resp))
    /\ prevFull' = IF tickLog # << >> /\ FullObs(idx, tickLog[Len(tickLog)])
                   THEN << tickLog[Len(tickLog)].sizes >>
                   ELSE prevFull
    /\ nTicks' = nTicks + 1
    /\ allFull' = (allFull /\ FullObs(idx, Obs(resp)))

----------------------------------------------------------------------------
(* Leaving an iteration of the apply loop, failing, returning from the poller *)

\* the end of the body of `for repo in &repos` in the apply phase
NextRepo ==
    IF idx < NumRepos
    THEN idx' = idx + 1 /\ pc' = "a_tag"
    ELSE idx' = idx /\ pc' = "complete"

\* bail!(..) or `?` inside run
Fail(e) == pc' = "failed" /\ err' = e

\* return Ok(()) of wait_for_release_assets; in run the loop goes on
ReturnOk ==
    /\ waited' = waited \cup { idx }
    /\ err' = err
    /\ IF caller = "run" THEN NextRepo ELSE pc' = "w_done" /\ idx' = idx

\* mutant: run records the error of the wait and goes on with the next repo
ReturnErr_GoOn(e) ==
    /\ waited' = waited
    /\ err' = e
    /\ IF caller = "run" THEN NextRepo ELSE pc' = "w_done" /\ idx' = idx

\* an Err of wait_for_release_assets; in run `?` returns it
ReturnErr(e) ==
    /\ waited' = waited
    /\ idx' = idx
    /\ IF caller = "run" THEN Fail(e) ELSE pc' = "w_done" /\ err' = e

----------------------------------------------------------------------------
(* wait_for_release_assets *)

WaitStart ==
    /\ pc = "w_call"
    /\ deadline' = NewDeadline(now)
    /\ last_sizes' = << >>
    /\ stable_count' = 0
    /\ tickLog' = << >>
    /\ prevFull' = << >>
    /\ nTicks' = 0
    /\ allFull' = TRUE
    /\ pc' = "w_loop"
    /\ UNCHANGED << caller, runVars, repVars, idx, err, errAssets, waited, calls,
                    now, waitStart >>

WaitTimeout ==
    /\ pc = "w_loop"
    /\ DeadlinePassed(now, deadline)
    /\ errAssets' = TimeoutAssets(idx)
    /\ ReturnErr("timeout")
    /\ UNCHANGED << caller, runVars, repVars, calls, now, deadline, last_sizes,
                    stable_count, waitStart, ghostVars >>

\* mutant: a tick that finds no release forgets the recorded sizes
WaitTick_AbsentResets(resp) ==
    /\ pc = "w_loop"
    /\ ~ DeadlinePassed(now, deadline)
    /\ calls' = calls \cup { << idx, "get_release_by_tag" >> }
    /\ Observe(resp)
    /\ LET sizes == SizesOf(resp.assets)
       IN  CASE resp.status = "error" ->
                  /\ ReturnErr("api")
                  /\ Report(<< >>)
                  /\ UNCHANGED << last_sizes, stable_count >>
             [] resp.status = "absent" ->
                  /\ Report(<< UpdateEv("release not found yet; waiting", idx) >>)
                  /\ pc' = "w_sleep"
                  /\ last_sizes' = << >>
                  /\ stable_count' = 0
                  /\ UNCHANGED << idx, err, waited >>
             [] resp.status = "ok" /\ Missing(expected_assets(idx), sizes) # << >> ->
                  /\ Report(<< Ev("update", "waiting for assets (missing)", idx,
                                  Missing(expected_assets(idx), sizes)) >>)
                  /\ pc' = "w_sleep"
                  /\ UNCHANGED << last_sizes, stable_count, idx, err, waited >>
             [] OTHER ->
                  /\ stable_count' = NextStable(last_sizes, stable_count, sizes)
                  /\ last_sizes' = NextLast(last_sizes, sizes)
                  /\ IF IsReady(NextStable(last_sizes, stable_count, sizes))
                     THEN /\ Report(<< UpdateEv("assets ready", idx) >>)
                          /\ ReturnOk
                     ELSE /\ Report(<< UpdateEv("assets present; verifying stability", idx) >>)
                          /\ pc' = "w_sleep"
                          /\ UNCHANGED << idx, err, waited >>
    /\ UNCHANGED << caller, runVars, now, deadline, errAssets, waitStart >>

\* one pass of the loop body past the deadline check: the fetch and what
\* follows, up to the sleep or the return
WaitTick(resp) ==
    /\ pc = "w_loop"
    /\ ~ DeadlinePassed(now, deadline)
    /\ calls' = calls \cup { << idx, "get_release_by_tag" >> }
    /\ Observe(resp)
    /\ LET sizes == SizesOf(resp.assets)
       IN  CASE resp.status = "error" ->
                  /\ ReturnErr("api")
                  /\ Report(<< >>)
                  /\ UNCHANGED << last_sizes, stable_count >>
             [] resp.status = "absent" ->
                  /\ Report(<< UpdateEv("release not found yet; waiting", idx) >>)
                  /\ pc' = "w_sleep"
                  /\ UNCHANGED << last_sizes, stable_count, idx, err, waited >>
             [] resp.status = "ok" /\ Missing(expected_assets(idx), sizes) # << >> ->
                  /\ Report(<< Ev("update", "waiting for assets (missing)", idx,
                                  Missing(expected_assets(idx), sizes)) >>)
                  /\ pc' = "w_sleep"
                  /\ UNCHANGED << last_sizes, stable_count, idx, err, waited >>
             [] OTHER ->
                  /\ stable_count' = NextStable(last_sizes, stable_count, sizes)
                  /\ last_sizes' = NextLast(last_sizes, sizes)
                  /\ IF IsReady(NextStable(last_sizes, stable_count, sizes))
                     THEN /\ Report(<< UpdateEv("assets ready", idx) >>)
                          /\ ReturnOk
                     ELSE /\ Report(<< UpdateEv("assets present; verifying stability", idx) >>)
                          /\ pc' = "w_sleep"
                          /\ UNCHANGED << idx, err, waited >>
    /\ UNCHANGED << caller, runVars, now, deadline, errAssets, waitStart >>

\* std::thread::sleep(poll_interval): at least poll_interval passes
WaitSleep(d) ==
    /\ pc = "w_sleep"
    /\ d >= PollInterval
    /\ now' = now + d
    /\ pc' = "w_loop"
    /\ UNCHANGED << caller, runVars, repVars, idx, err, errAssets, waited, calls,
                    deadline, last_sizes, stable_count, waitStart, ghostVars >>

----------------------------------------------------------------------------
(* release_iso::run: start *)

pollVars == << caller, now, deadline, last_sizes, stable_count, errAssets,
               waited, waitStart, ghostVars >>

startFrame == << hostVars, idx, remote_tagged, gh, calls, pushVars, preflighted,
                 pollVars >>

\* mutant: the version is parsed after the first narration
ParseVersion_AfterInitialize(ok) ==
    /\ pc = "parse"
    /\ Report(<< StepEv("Initialize", 0) >>)
    /\ IF ok
       THEN pc' = "root" /\ err' = err
       ELSE Fail("invalid version")
    /\ UNCHANGED startFrame

\* parse_and_normalize_version(&args.version)?, then reporter.step("Initialize")
ParseVersion(ok) ==
    /\ pc = "parse"
    /\ IF ok
       THEN /\ Report(<< StepEv("Initialize", 0) >>)
            /\ pc' = "root"
            /\ err' = err
       ELSE /\ Fail("invalid version")
            /\ Report(<< >>)
    /\ UNCHANGED startFrame

\* args.repos_root, or default_repos_root()? which inspects directories
ReposRoot(ok) ==
    /\ pc = "root"
    /\ IF ok
       THEN /\ Report(<< UpdateEv("repos_root", 0) >>)
            /\ pc' = "pf_dir"
            /\ err' = err
       ELSE /\ Fail("can't infer repos root")
            /\ Report(<< >>)
    /\ UNCHANGED startFrame

----------------------------------------------------------------------------
(* release_iso::run: the preflight loop, one action per check *)

pfFrame == << hostVars, gh, pushVars, pollVars >>

\* mutant: the preflight loop stops after its first repo
PfNext_Break ==
    /\ preflighted' = preflighted \cup { idx }
    /\ idx' = 1
    /\ pc' = "token"

\* the end of the body of `for repo in &repos` in preflight (also `continue`)
PfNext ==
    /\ preflighted' = preflighted \cup { idx }
    /\ IF idx < NumRepos
       THEN idx' = idx + 1 /\ pc' = "pf_dir"
       ELSE idx' = 1 /\ pc' = "token"

\* mutant: a failed check is recorded and the next check is run all the same
PfCheck_Continue(op, ok, e, next) ==
    /\ calls' = calls \cup { << idx, op >> }
    /\ idx' = idx
    /\ preflighted' = preflighted
    /\ pc' = next
    /\ err' = IF ok THEN err ELSE e

\* a check: the call is made; passing goes on to the next check of the repo
PfCheck(op, ok, e, next) ==
    /\ calls' = calls \cup { << idx, op >> }
    /\ idx' = idx
    /\ preflighted' = preflighted
    /\ IF ok THEN pc' = next /\ err' = err ELSE Fail(e)

PfDir(ok) ==
    /\ pc = "pf_dir"
    /\ Report(<< StepEv("Preflight", idx) >>)
    /\ PfCheck("is_dir", ok, "repo directory not found", "pf_origin")
    /\ UNCHANGED << remote_tagged, pfFrame >>

PfOrigin(ok) ==
    /\ pc = "pf_origin"
    /\ Report(<< UpdateEv("Verifying origin remote", 0) >>)
    /\ PfCheck("ensure_origin_matches_expected", ok,
               "origin remote doesn't look like expected", "pf_fetch")
    /\ UNCHANGED << remote_tagged, pfFrame >>

PfFetch(ok) ==
    /\ pc = "pf_fetch"
    /\ Report(<< UpdateEv("Fetching origin tags", 0) >>)
    /\ PfCheck("fetch_origin", ok, "git fetch origin failed", "pf_remote")
    /\ UNCHANGED << remote_tagged, pfFrame >>

\* mutant: a remote tag is tolerated without --resume as well
PfRemoteTag_NoBail(res) ==
    /\ pc = "pf_remote"
    /\ Report(<< UpdateEv("Checking remote tag", 0) >>)
    /\ calls' = calls \cup { << idx, "remote_tag_commit" >> }
    /\ IF res = "err"
       THEN /\ Fail("failed to query remote tag")
            /\ UNCHANGED << idx, remote_tagged, preflighted >>
       ELSE /\ remote_tagged' = MapInsert(remote_tagged, idx, res = "some")
            /\ IF res = "some"
               THEN PfNext /\ err' = err
               ELSE /\ pc' = "pf_clean"
                    /\ UNCHANGED << idx, err, preflighted >>
    /\ UNCHANGED pfFrame

\* mutant: a resume run goes on with the local checks of a repo whose tag
\* is on the remote
PfRemoteTag_NoSkip(res) ==
    /\ pc = "pf_remote"
    /\ Report(<< UpdateEv("Checking remote tag", 0) >>)
    /\ calls' = calls \cup { << idx, "remote_tag_commit" >> }
    /\ IF res = "err"
       THEN /\ Fail("failed to query remote tag")
            /\ UNCHANGED << idx, remote_tagged, preflighted >>
       ELSE /\ remote_tagged' = MapInsert(remote_tagged, idx, res = "some")
            /\ IF res = "some" /\ ~ resume
               THEN /\ Fail("already has remote tag")
                    /\ UNCHANGED << idx, preflighted >>
               ELSE /\ pc' = "pf_clean"
                    /\ UNCHANGED << idx, err, preflighted >>
    /\ UNCHANGED pfFrame

\* repo.remote_tag_commit(&tag)?: "err", "none" or "some"
PfRemoteTag(res) ==
    /\ pc = "pf_remote"
    /\ Report(<< UpdateEv("Checking remote tag", 0) >>)
    /\ calls' = calls \cup { << idx, "remote_tag_commit" >> }
    /\ IF res = "err"
       THEN /\ Fail("failed to query remote tag")
            /\ UNCHANGED << idx, remote_tagged, preflighted >>
       ELSE /\ remote_tagged' = MapInsert(remote_tagged, idx, res = "some")
            /\ IF res = "some"
               THEN IF resume
                    THEN PfNext /\ err' = err
                    ELSE /\ Fail("already has remote tag")
                         /\ UNCHANGED << idx, preflighted >>
               ELSE /\ pc' = "pf_clean"
                    /\ UNCHANGED << idx, err, preflighted >>
    /\ UNCHANGED pfFrame

PfClean(ok) ==
    /\ pc = "pf_clean"
    /\ Report(<< UpdateEv("Ensuring worktree clean", 0) >>)
    /\ PfCheck("ensure_worktree_clean", ok, "has uncommitted changes", "pf_sync")
    /\ UNCHANGED << remote_tagged, pfFrame >>

SyncResults ==
    { "ok", "git fetch origin failed", "detached HEAD", "failed to resolve",
      "not synced" }

\* repo.ensure_on_branch_and_synced_to_origin()?
PfSync(res) ==
    /\ pc = "pf_sync"
    /\ Report(<< UpdateEv("Ensuring branch is synced with origin", 0) >>)
    /\ PfCheck("ensure_on_branch_and_synced_to_origin", res = "ok", res, "pf_tag")
    /\ UNCHANGED << remote_tagged, pfFrame >>

ResumeTagResults == { "git failed", "none", "head", "other" }

AbsentTagResults == { "git failed", "none", "local", "remote" }

\* mutant: a resume run accepts a local tag whatever it points at
PfTag_AcceptAny(res) ==
    /\ pc = "pf_tag"
    /\ IF resume
       THEN /\ res \in ResumeTagResults
            /\ Report(<< >>)
            /\ calls' = calls \cup { << idx, "local_tag_commit" >> }
            /\ IF res \in { "none", "head", "other" }
               THEN PfNext /\ err' = err
               ELSE /\ Fail(res)
                    /\ UNCHANGED << idx, preflighted >>
       ELSE /\ res \in AbsentTagResults
            /\ Report(<< UpdateEv("Ensuring local/remote tag absent", 0) >>)
            /\ calls' = calls \cup { << idx, "ensure_tag_absent_local_and_remote" >> }
            /\ IF res = "none"
               THEN PfNext /\ err' = err
               ELSE /\ Fail(CASE res = "local" -> "already has local tag"
                              [] res = "remote" -> "already has remote tag"
                              [] OTHER -> res)
                    /\ UNCHANGED << idx, preflighted >>
    /\ UNCHANGED << remote_tagged, pfFrame >>

\* resume: local_tag_commit (and head_commit, compared with it); otherwise
\* ensure_tag_absent_local_and_remote
PfTag(res) ==
    /\ pc = "pf_tag"
    /\ IF resume
       THEN /\ res \in ResumeTagResults
            /\ Report(<< >>)
            /\ calls' = calls \cup { << idx, "local_tag_commit" >> }
            /\ IF res \in { "none", "head" }
               THEN PfNext /\ err' = err
               ELSE /\ Fail(IF res = "other"
                            THEN "local tag does not point at HEAD" ELSE res)
                    /\ UNCHANGED << idx, preflighted >>
       ELSE /\ res \in AbsentTagResults
            /\ Report(<< UpdateEv("Ensuring local/remote tag absent", 0) >>)
            /\ calls' = calls \cup { << idx, "ensure_tag_absent_local_and_remote" >> }
            /\ IF res = "none"
               THEN PfNext /\ err' = err
               ELSE /\ Fail(CASE res = "local" -> "already has local tag"
                              [] res = "remote" -> "already has remote tag"
                              [] OTHER -> res)
                    /\ UNCHANGED << idx, preflighted >>
    /\ UNCHANGED << remote_tagged, pfFrame >>

----------------------------------------------------------------------------
(* release_iso::run: the credential and the hosting-service client *)

\* mutant: the credential is not asked for
TokenMissing_Never == FALSE

\* mutant: the credential is required in a dry run too
TokenMissing_EvenDry == ~ token

\* if !args.dry_run && token.is_empty() { bail!(..) }
TokenMissing == ~ dry_run /\ ~ token

\* let gh = if args.dry_run || token.is_empty() { None } else { Some(GitHub::new(..)?) }
BuildsClient == ~ (dry_run \/ ~ token)

Token(built) ==
    /\ pc = "token"
    /\ IF TokenMissing
       THEN Fail("missing GITHUB_TOKEN") /\ gh' = gh
       ELSE IF BuildsClient
            THEN IF built
                 THEN gh' = TRUE /\ pc' = "a_tag" /\ err' = err
                 ELSE Fail("failed to build HTTP client") /\ gh' = gh
            ELSE gh' = FALSE /\ pc' = "a_tag" /\ err' = err
    /\ UNCHANGED << hostVars, idx, remote_tagged, repVars, calls, pushVars,
                    preflighted, pollVars >>

----------------------------------------------------------------------------
(* release_iso::run: the apply loop *)

applyFrame == << hostVars, remote_tagged, gh, preflighted, caller, now,
                 deadline, last_sizes, stable_count, errAssets, waited,
                 ghostVars >>

DryTagEv(i) ==
    IF already_remote_tagged(i)
    THEN UpdateEv("(dry-run) tag already on origin; would skip tagging", i)
    ELSE UpdateEv("(dry-run) would create annotated tag and push", i)

DryAssetsEv(i) ==
    Ev("update", "(dry-run) would wait for assets", i, expected_assets(i))

\* mutant: the snapshot is not consulted
TagsRepo_Always(i) == ~ dry_run

\* whether the tagging step of repo i goes to create/push
TagsRepo(i) == ~ dry_run /\ ~ already_remote_tagged(i)

\* mutant: a repo whose tagging is skipped is not waited for
ATag_SkipWait ==
    /\ pc = "a_tag"
    /\ IF dry_run
       THEN /\ Report(<< StepEv("Tagging", idx), DryTagEv(idx) >>)
            /\ pc' = "a_assets"
            /\ idx' = idx
       ELSE IF TagsRepo(idx)
            THEN /\ Report(<< StepEv("Tagging", idx) >>)
                 /\ pc' = "a_local"
                 /\ idx' = idx
            ELSE /\ Report(<< StepEv("Tagging", idx),
                             UpdateEv("tag already exists on origin; skipping create/push", idx) >>)
                 /\ NextRepo
    /\ UNCHANGED << err, calls, pushVars, waitStart, applyFrame >>

ATag ==
    /\ pc = "a_tag"
    /\ IF dry_run
       THEN /\ Report(<< StepEv("Tagging", idx), DryTagEv(idx) >>)
            /\ pc' = "a_assets"
       ELSE IF TagsRepo(idx)
            THEN /\ Report(<< StepEv("Tagging", idx) >>)
                 /\ pc' = "a_local"
            ELSE /\ Report(<< StepEv("Tagging", idx),
                             UpdateEv("tag already exists on origin; skipping create/push", idx) >>)
                 /\ pc' = "a_assets"
    /\ UNCHANGED << idx, err, calls, pushVars, waitStart, applyFrame >>

\* mutant: the tag is created whether or not it exists locally
ALocalTag_AlwaysCreate(res) ==
    /\ pc = "a_local"
    /\ calls' = calls \cup { << idx, "local_tag_commit" >> }
    /\ CASE res = "err" -> Fail("git failed") /\ Report(<< >>)
         [] OTHER ->
              /\ Report(<< UpdateEv("Creating annotated tag", 0) >>)
              /\ pc' = "a_create"
              /\ err' = err
    /\ UNCHANGED << idx, pushVars, waitStart, applyFrame >>

\* the local tag is there and resolves to the commit of HEAD, or to another
\* commit
FoundTags == { "head", "other" }

\* if repo.local_tag_commit(&tag)?.is_none(): "err", "none", or a tag that
\* is there, of which the run looks at nothing but that it is there
ALocalTag(res) ==
    /\ pc = "a_local"
    /\ calls' = calls \cup { << idx, "local_tag_commit" >> }
    /\ CASE res = "err" ->
              Fail("git failed") /\ Report(<< >>) /\ local_tag' = local_tag
         [] res = "none" ->
              /\ Report(<< UpdateEv("Creating annotated tag", 0) >>)
              /\ pc' = "a_create"
              /\ err' = err
              /\ local_tag' = "none"
         [] OTHER ->
              /\ pc' = "a_push"
              /\ Report(<< >>)
              /\ err' = err
              /\ local_tag' = res
    /\ UNCHANGED << idx, pushed, waitStart, applyFrame >>

\* repo.create_annotated_tag(&tag)?
ACreate(ok) ==
    /\ pc = "a_create"
    /\ calls' = calls \cup { << idx, "create_annotated_tag" >> }
    /\ IF ok
       THEN pc' = "a_push" /\ err' = err /\ local_tag' = "head"
       ELSE Fail("git tag failed") /\ local_tag' = local_tag
    /\ UNCHANGED << idx, repVars, pushed, waitStart, applyFrame >>

\* mutant: a failed push takes back the tags pushed earlier in the run
APush_Rollback(ok) ==
    /\ pc = "a_push"
    /\ Report(<< UpdateEv("Pushing tag to origin", 0) >>)
    /\ calls' = calls \cup { << idx, "push_tag" >> }
    /\ pushed' = IF ok THEN Append(pushed, idx) ELSE << >>
    /\ local_tag' = local_tag
    /\ IF ok THEN pc' = "a_assets" /\ err' = err ELSE Fail("git push failed")
    /\ UNCHANGED << idx, waitStart, applyFrame >>

\* repo.push_tag(&tag)?
APush(ok) ==
    /\ pc = "a_push"
    /\ Report(<< UpdateEv("Pushing tag to origin", 0) >>)
    /\ calls' = calls \cup { << idx, "push_tag" >> }
    /\ pushed' = Append(pushed, idx)
    /\ local_tag' = local_tag
    /\ IF ok THEN pc' = "a_assets" /\ err' = err ELSE Fail("git push failed")
    /\ UNCHANGED << idx, waitStart, applyFrame >>

\* mutant: the next repo is taken up without waiting for the assets
AAssets_NoWait ==
    /\ pc = "a_assets"
    /\ NextRepo
    /\ UNCHANGED << repVars, waitStart, err, calls, pushVars, applyFrame >>

\* the expected assets of the repo: nothing to wait for, the dry-run
\* narration, or the call of wait_for_release_assets
AAssets ==
    /\ pc = "a_assets"
    /\ IF expected_assets(idx) = << >>
       THEN NextRepo /\ UNCHANGED << repVars, waitStart >>
       ELSE IF dry_run
            THEN /\ NextRepo
                 /\ Report(<< DryAssetsEv(idx) >>)
                 /\ waitStart' = waitStart
            ELSE IF gh
                 THEN /\ Report(<< Ev("step", "Waiting for assets", idx,
                                      expected_assets(idx)) >>)
                      /\ pc' = "w_call"
                      /\ idx' = idx
                      /\ waitStart' = now
                 ELSE NextRepo /\ UNCHANGED << repVars, waitStart >>
    /\ UNCHANGED << err, calls, pushVars, applyFrame >>

\* reporter.step("Complete"); reporter.ok("OK"); Ok(())
Complete ==
    /\ pc = "complete"
    /\ Report(<< StepEv("Complete", 0), Ev("ok", "OK", 0, << >>) >>)
    /\ pc' = "done"
    /\ UNCHANGED << idx, err, calls, pushVars, waitStart, applyFrame >>

----------------------------------------------------------------------------
(* tui.rs: AppState, handle_ui_event, handle_key.  The clock anchors       *)
(* step_started_at and last_draw only feed the rendering and are left out. *)

AppStateNew ==
    [ step_title  |-> << "Initializing", "0" >>,
      step_body   |-> << "Starting orchestrator" >>,
      ok_msg      |-> "OK",
      error_msg   |-> << >>,
      repos       |-> << >>,
      help_scroll |-> 0,
      focus       |-> "None",
      finished    |-> << >> ]

\* msg.trim().is_empty()
IsBlank(msg) == msg \in { "", " " }

\* mutant: a new body text clears the error
handle_ui_event_BodyClears(st, ev) ==
    CASE ev.type = "SetStep" ->
            [ st EXCEPT !.step_title = ev.title, !.step_body = ev.body ]
      [] ev.type = "UpdateBody" ->
            [ st EXCEPT !.step_body = ev.body, !.error_msg = << >> ]
      [] ev.type = "SetOk" ->
            [ st EXCEPT !.error_msg = << >>,
                        !.ok_msg = IF IsBlank(ev.msg) THEN "OK" ELSE ev.msg ]
      [] ev.type = "SetError" ->
            [ st EXCEPT !.error_msg = << ev.msg >> ]
      [] ev.type = "SetRepos" ->
            [ st EXCEPT !.repos = ev.rows ]
      [] OTHER ->
            IF ev.ok
            THEN [ st EXCEPT !.finished = << ev.ok >>,
                             !.error_msg = << >>,
                             !.ok_msg = "DONE" ]
            ELSE [ st EXCEPT !.finished = << ev.ok >> ]

handle_ui_event(st, ev) ==
    CASE ev.type = "SetStep" ->
            [ st EXCEPT !.step_title = ev.title, !.step_body = ev.body ]
      [] ev.type = "UpdateBody" ->
            [ st EXCEPT !.step_body = ev.body ]
      [] ev.type = "SetOk" ->
            [ st EXCEPT !.error_msg = << >>,
                        !.ok_msg = IF IsBlank(ev.msg) THEN "OK" ELSE ev.msg ]
      [] ev.type = "SetError" ->
            [ st EXCEPT !.error_msg = << ev.msg >> ]
      [] ev.type = "SetRepos" ->
            [ st EXCEPT !.repos = ev.rows ]
      [] OTHER ->
            IF ev.ok
            THEN [ st EXCEPT !.finished = << ev.ok >>,
                             !.error_msg = << >>,
                             !.ok_msg = "DONE" ]
            ELSE [ st EXCEPT !.finished = << ev.ok >> ]

Keys == { "q", "Esc", "Ctrl-c", "Tab", "Up", "Down", "PageUp", "PageDown", "x" }

\* handle_key returns true
KeyQuits(key) == key \in { "q", "Esc", "Ctrl-c" }

\* saturating_sub
SatSub(a, b) == IF a >= b THEN a - b ELSE 0

\* what handle_key does to the state
KeyState(st, key) ==
    CASE key = "Tab" ->
            [ st EXCEPT !.focus = IF st.focus = "None" THEN "Help" ELSE "None" ]
      [] key \in { "Up", "Down", "PageUp", "PageDown" } /\ st.focus = "Help" ->
            [ st EXCEPT !.help_scroll =
                CASE key = "Up"       -> SatSub(st.help_scroll, 1)
                  [] key = "Down"     -> st.help_scroll + 1
                  [] key = "PageUp"   -> SatSub(st.help_scroll, 10)
                  [] OTHER            -> st.help_scroll + 10 ]
      [] OTHER -> st

----------------------------------------------------------------------------
(* tui::run: the UI loop on the main thread *)

workerVars == << pc, caller, argVars, idx, remote_tagged, gh, err, errAssets,
                 narr, calls, pushVars, preflighted, waited, waitStart, now,
                 deadline, last_sizes, stable_count, ghostVars, monVars >>

\* tui::run returns: the terminal is restored, the Receiver is dropped and
\* with it the events still pending
EndUi(r) ==
    /\ ui_res' = r
    /\ rxAlive' = FALSE
    /\ chan' = << >>
    /\ mpc' = "join"

\* enable_raw_mode()?, EnterAlternateScreen, Terminal::new()?, clear()?
UiInit(ok) ==
    /\ mpc = "ui_init"
    /\ IF ok
       THEN mpc' = "drain" /\ UNCHANGED << ui_res, rxAlive, chan >>
       ELSE EndUi("err")
    /\ state' = AppStateNew
    /\ UNCHANGED << workerVars, use_tui, auto_exit, sent, exit_code, stderr >>

\* mutant: the newest pending event is received first
UiRecv_Newest ==
    /\ mpc = "drain"
    /\ chan # << >>
    /\ state' = handle_ui_event(state, chan[Len(chan)])
    /\ chan' = SubSeq(chan, 1, Len(chan) - 1)
    /\ UNCHANGED << workerVars, use_tui, auto_exit, rxAlive, sent, mpc, ui_res,
                    exit_code, stderr >>

\* while let Ok(ev) = rx.try_recv() { handle_ui_event(&mut state, ev) }
UiRecv ==
    /\ mpc = "drain"
    /\ chan # << >>
    /\ state' = handle_ui_event(state, Head(chan))
    /\ chan' = Tail(chan)
    /\ UNCHANGED << workerVars, use_tui, auto_exit, rxAlive, sent, mpc, ui_res,
                    exit_code, stderr >>

\* mutant: the drain may stop with events still pending
UiDrained_Early ==
    /\ mpc = "drain"
    /\ mpc' = "key"
    /\ UNCHANGED << workerVars, use_tui, auto_exit, chan, rxAlive, sent, state,
                    ui_res, exit_code, stderr >>

\* try_recv returns Err: nothing is pending
UiDrained ==
    /\ mpc = "drain"
    /\ chan = << >>
    /\ mpc' = "key"
    /\ UNCHANGED << workerVars, use_tui, auto_exit, chan, rxAlive, sent, state,
                    ui_res, exit_code, stderr >>

\* event::poll(10ms)? && Event::Key(key) = event::read()? && handle_key(..):
\* key is a key, "none" (no key within the 10 ms) or "err" (poll or read failed)
UiKey(key) ==
    /\ mpc = "key"
    /\ CASE key = "err"  -> EndUi("err") /\ state' = state
         [] key = "none" -> mpc' = "fin" /\ UNCHANGED << state, ui_res, rxAlive, chan >>
         [] KeyQuits(key) -> EndUi("ok") /\ state' = state
         [] OTHER ->
              /\ KeyState(state, key).help_scroll <= MaxScroll
              /\ state' = KeyState(state, key)
              /\ mpc' = "fin"
              /\ UNCHANGED << ui_res, rxAlive, chan >>
    /\ UNCHANGED << workerVars, use_tui, auto_exit, sent, exit_code, stderr >>

\* mutant: auto-exit leaves the loop after a failed run too
AutoExits_AnyResult(st) == st.finished # << >> /\ auto_exit

\* if let Some(ok) = state.finished && ok && auto_exit { break }
AutoExits(st) == st.finished = << TRUE >> /\ auto_exit

UiFinished ==
    /\ mpc = "fin"
    /\ IF AutoExits(state)
       THEN EndUi("ok")
       ELSE mpc' = "draw" /\ UNCHANGED << ui_res, rxAlive, chan >>
    /\ UNCHANGED << workerVars, use_tui, auto_exit, sent, state, exit_code,
                    stderr >>

\* if last_draw.elapsed() >= tick { terminal.draw(..)?; .. }: "skip", "ok", "err"
UiDraw(res) ==
    /\ mpc = "draw"
    /\ IF res = "err"
       THEN EndUi("err")
       ELSE mpc' = "drain" /\ UNCHANGED << ui_res, rxAlive, chan >>
    /\ UNCHANGED << workerVars, use_tui, auto_exit, sent, state, exit_code,
                    stderr >>

UiStep ==
    \/ \E ok \in BOOLEAN : UiInit(ok)
    \/ UiRecv
    \/ UiDrained
    \/ \E key \in Keys \cup { "none", "err" } : UiKey(key)
    \/ UiFinished
    \/ \E res \in { "skip", "ok", "err" } : UiDraw(res)

----------------------------------------------------------------------------
(* Specifications *)

InitCommon ==
    /\ remote_tagged = {}
    /\ err = "none"
    /\ errAssets = << >>
    /\ narr = {}
    /\ calls = {}
    /\ pushed = << >>
    /\ local_tag = "none"
    /\ preflighted = {}
    /\ waited = {}
    /\ deadline = 0
    /\ last_sizes = << >>
    /\ stable_count = 0
    /\ tickLog = << >>
    /\ prevFull = << >>
    /\ nTicks = 0
    /\ allFull = TRUE
    /\ rows = << >>
    /\ shutdown = FALSE
    /\ slept = 0
    /\ show_loading = FALSE
    /\ pass = 0
    /\ odd = {}

\* no UI: the reporter is a PlainReporter
InitNoTui ==
    /\ use_tui = FALSE
    /\ auto_exit = FALSE
    /\ chan = << >>
    /\ rxAlive = FALSE
    /\ sent = << >>
    /\ mpc = "off"
    /\ state = AppStateNew
    /\ ui_res = "none"
    /\ exit_code = -1
    /\ stderr = << >>

\* a run of release_iso::run
Init ==
    /\ InitCommon
    /\ InitNoTui
    /\ pc = "parse"
    /\ caller = "run"
    /\ idx = 1
    /\ dry_run \in BOOLEAN
    /\ resume \in BOOLEAN
    /\ token \in BOOLEAN
    /\ timeout = RunTimeout
    /\ gh = FALSE
    /\ now = 0
    /\ waitStart = 0

PollStep ==
    \/ WaitStart
    \/ WaitTimeout
    \/ \E resp \in RunResponses(idx) : WaitTick(resp)
    \/ WaitSleep(PollInterval)

Next ==
    \/ \E ok \in BOOLEAN : ParseVersion(ok)
    \/ \E ok \in BOOLEAN : ReposRoot(ok)
    \/ \E ok \in BOOLEAN : PfDir(ok)
    \/ \E ok \in BOOLEAN : PfOrigin(ok)
    \/ \E ok \in BOOLEAN : PfFetch(ok)
    \/ \E res \in { "err", "none", "some" } : PfRemoteTag(res)
    \/ \E ok \in BOOLEAN : PfClean(ok)
    \/ \E res \in SyncResults : PfSync(res)
    \/ \E res \in ResumeTagResults \cup AbsentTagResults : PfTag(res)
    \/ \E built \in BOOLEAN : Token(built)
    \/ ATag
    \/ \E res \in { "err", "none" } \cup FoundTags : ALocalTag(res)
    \/ \E ok \in BOOLEAN : ACreate(ok)
    \/ \E ok \in BOOLEAN : APush(ok)
    \/ AAssets
    \/ Complete
    \/ PollStep

Spec == Init /\ [][Next]_vars

\* wait_for_release_assets called on its own, for one of the repos, against
\* any backend
InitWait ==
    /\ InitCommon
    /\ InitNoTui
    /\ pc = "w_call"
    /\ caller = "direct"
    /\ idx \in 1..WaitRepos
    /\ dry_run = FALSE
    /\ resume = FALSE
    /\ token = TRUE
    /\ timeout \in 1..MaxTimeout
    /\ gh = TRUE
    /\ now \in 0..MaxStart
    /\ waitStart = now

NextWait ==
    \/ WaitStart
    \/ WaitTimeout
    \/ \E resp \in Responses(idx) : WaitTick(resp)
    \/ \E d \in PollInterval..(PollInterval + MaxJitter) : WaitSleep(d)

SpecWait == InitWait /\ [][NextWait]_vars

\* the scheduler runs the thread: a sleep ends, the loop goes on
SpecWaitFair == SpecWait /\ WF_vars(NextWait)

\* the events a producer may send: every variant of UiEvent
UiAlphabet ==
    { SetStep(<< "s", "1" >>, << "b" >>), UpdateBody(<< "u" >>),
      SetOk(""), SetOk("fine"), SetError("boom"), SetRepos(<< "row" >>),
      Finished(TRUE), Finished(FALSE) }

\* a producer holding a Sender sends an event
Produce(ev) ==
    /\ pc = "produce"
    /\ Len(sent) < MaxEvents
    /\ Send(<< ev >>)
    /\ UNCHANGED << workerVars, mainVars >>

\* the UI with any producer: tui::run(rx, auto_exit) and a thread that sends
InitUi ==
    /\ InitCommon
    /\ pc = "produce"
    /\ caller = "none"
    /\ idx = 1
    /\ dry_run = FALSE
    /\ resume = FALSE
    /\ token = TRUE
    /\ timeout = RunTimeout
    /\ gh = FALSE
    /\ now = 0
    /\ waitStart = 0
    /\ use_tui = TRUE
    /\ auto_exit \in BOOLEAN
    /\ chan = << >>
    /\ rxAlive = TRUE
    /\ sent = << >>
    /\ mpc = "ui_init"
    /\ state = AppStateNew
    /\ ui_res = "none"
    /\ exit_code = -1
    /\ stderr = << >>

NextUi ==
    \/ \E ev \in UiAlphabet : Produce(ev)
    \/ UiStep

SpecUi == InitUi /\ [][NextUi]_vars

----------------------------------------------------------------------------
(* main: the worker thread, the UI on the main thread, the join *)

\* mutant: the error text is sent before the step is changed to Failed
WorkerFinish_ErrorFirst ==
    /\ pc \in { "done", "failed" }
    /\ use_tui
    /\ LET evs == IF err # "none"
                  THEN << Ev("error", err, 0, << >>), StepEv("Failed", 0) >>
                  ELSE << >>
       IN  /\ narr' = narr \cup Range(evs)
           /\ Send(ToUis(evs) \o << Finished(err = "none") >>)
    /\ pc' = "returned"
    /\ UNCHANGED << hostVars, caller, idx, remote_tagged, gh, err, errAssets,
                    calls, pushVars, preflighted, waited, waitStart, now, deadline,
                    last_sizes, stable_count, ghostVars >>

\* mutant: Finished is sent before the narration of the failure
WorkerFinish_FinishedFirst ==
    /\ pc \in { "done", "failed" }
    /\ use_tui
    /\ LET evs == IF err # "none"
                  THEN << StepEv("Failed", 0), Ev("error", err, 0, << >>) >>
                  ELSE << >>
       IN  /\ narr' = narr \cup Range(evs)
           /\ Send(<< Finished(err = "none") >> \o ToUis(evs))
    /\ pc' = "returned"
    /\ UNCHANGED << hostVars, caller, idx, remote_tagged, gh, err, errAssets,
                    calls, pushVars, preflighted, waited, waitStart, now, deadline,
                    last_sizes, stable_count, ghostVars >>

\* the closure of the worker thread once run_command has returned: on Err
\* reporter.step("Failed", ..) and reporter.error(..); then
\* let _ = tx.send(Finished { ok: result.is_ok() }); the thread ends
WorkerFinish ==
    /\ pc \in { "done", "failed" }
    /\ use_tui
    /\ LET evs == IF err # "none"
                  THEN << StepEv("Failed", 0), Ev("error", err, 0, << >>) >>
                  ELSE << >>
       IN  /\ narr' = narr \cup Range(evs)
           /\ Send(ToUis(evs) \o << Finished(err = "none") >>)
    /\ pc' = "returned"
    /\ UNCHANGED << hostVars, caller, idx, remote_tagged, gh, err, errAssets,
                    calls, pushVars, preflighted, waited, waitStart, now, deadline,
                    last_sizes, stable_count, ghostVars >>

\* what main writes to stderr, itself or by returning Err: ui_res? comes
\* first, then the eprintln of the worker's error
MainStderr ==
    IF ui_res = "err" THEN << "ui error" >>
    ELSE IF err # "none" THEN << err >> ELSE << >>

\* ui_res? returns Err (exit code 1); std::process::exit(1); return Ok(())
MainExitCode ==
    IF ui_res = "err" \/ err # "none" THEN 1 ELSE 0

\* worker.join() returns once the worker thread has ended; then the rest of main
MainJoin ==
    /\ mpc = "join"
    /\ pc = "returned"
    /\ stderr' = MainStderr
    /\ exit_code' = MainExitCode
    /\ mpc' = "exit"
    /\ UNCHANGED << workerVars, use_tui, auto_exit, chan, rxAlive, sent, state,
                    ui_res >>

\* the backend while the UI is shown: a failure, no release yet, or every
\* expected asset uploaded
MainResponses(i) ==
    { [ status |-> "error", assets |-> << >> ],
      [ status |-> "absent", assets |-> << >> ],
      [ status |-> "ok", assets |-> FullRelease(i, 1) ] }

\* the steps of the worker thread
WorkerStep ==
    \/ \E ok \in BOOLEAN : ParseVersion(ok)
    \/ \E ok \in BOOLEAN : ReposRoot(ok)
    \/ \E ok \in BOOLEAN : PfDir(ok)
    \/ \E ok \in BOOLEAN : PfOrigin(ok)
    \/ \E ok \in BOOLEAN : PfFetch(ok)
    \/ \E res \in { "err", "none", "some" } : PfRemoteTag(res)
    \/ \E ok \in BOOLEAN : PfClean(ok)
    \/ \E res \in SyncResults : PfSync(res)
    \/ \E res \in AbsentTagResults : PfTag(res)
    \/ \E built \in BOOLEAN : Token(built)
    \/ ATag
    \/ \E res \in { "err", "none" } : ALocalTag(res)
    \/ \E ok \in BOOLEAN : ACreate(ok)
    \/ \E ok \in BOOLEAN : APush(ok)
    \/ AAssets
    \/ Complete
    \/ WaitStart
    \/ WaitTimeout
    \/ \E resp \in MainResponses(idx) : WaitTick(resp)
    \/ WaitSleep(PollInterval)
    \/ WorkerFinish

\* the process with the UI: a non-resume run on the worker thread, in a
\* repository set where no local tag is left over from an earlier run
InitMain ==
    /\ InitCommon
    /\ pc = "parse"
    /\ caller = "run"
    /\ idx = 1
    /\ dry_run \in BOOLEAN
    /\ resume = FALSE
    /\ token \in BOOLEAN
    /\ timeout = RunTimeout
    /\ gh = FALSE
    /\ now = 0
    /\ waitStart = 0
    /\ use_tui = TRUE
    /\ auto_exit \in BOOLEAN
    /\ chan = << SetStep(<< "Initializing", "0" >>, << "Starting orchestrator" >>),
                 SetOk("OK") >>
    /\ sent = chan
    /\ rxAlive = TRUE
    /\ mpc = "ui_init"
    /\ state = AppStateNew
    /\ ui_res = "none"
    /\ exit_code = -1
    /\ stderr = << >>

\* the UI loop with an operator who watches and, at some time, quits
MainUiStep ==
    \/ \E ok \in BOOLEAN : UiInit(ok)
    \/ UiRecv
    \/ UiDrained
    \/ \E key \in { "q", "none", "err" } : UiKey(key)
    \/ UiFinished
    \/ \E res \in { "skip", "ok", "err" } : UiDraw(res)

NextMain ==
    \/ WorkerStep
    \/ MainUiStep
    \/ MainJoin

SpecMain == InitMain /\ [][NextMain]_vars

----------------------------------------------------------------------------
(* monitor::run: the fleet monitor.  It holds a Sender of the channel and  *)
(* a reporter; the shutdown flag is set from outside.                      *)

MonPollSlices == 2   \* args.poll_interval, in slices of 200 ms
MaxPasses     == 2   \* refresh passes of a run of the monitor
MaxOdd        == 1   \* rows that show, in a run of the monitor, anything but
                     \* a green, released, level repo

NumMonRepos == 12

REPOS ==
    << ".github", "docs", "installer", "installer-iso", "installer-kernel",
       "installer-kernel-builder-image", "orchestrator", "truthdb",
       "truthdb-cli", "truthdb-net", "truthdb-proto", "website" >>

\* RepoStatusRow; an Option is << >> or << value >>
Row(name, action, latest_release, ahead_by, loading) ==
    [ name |-> name, action |-> action, latest_release |-> latest_release,
      ahead_by |-> ahead_by, loading |-> loading ]

placeholder_rows ==
    [ i \in 1..NumMonRepos |-> Row(REPOS[i], "Unknown", << >>, << >>, TRUE) ]

\* for row in rows.iter_mut() { row.loading = true }
MarkLoading(rs) == [ i \in DOMAIN rs |-> [ rs[i] EXCEPT !.loading = TRUE ] ]

\* get_latest_workflow_run: Err, Ok(None) or Ok(Some(run))
WorkflowRuns ==
    { [ res |-> "err", status |-> "", conclusion |-> << >> ],
      [ res |-> "none", status |-> "", conclusion |-> << >> ] }
    \cup [ res : { "some" },
           status : { "completed", "in_progress" },
           conclusion : { << >>, << "success" >>, << "failure" >>,
                          << "cancelled" >>, << "timed_out" >>, << "neutral" >> } ]

\* the match on get_latest_workflow_run in refresh_rows_incremental
ActionOf(run) ==
    IF run.res # "some" THEN "Unknown"
    ELSE IF run.status = "completed"
         THEN CASE run.conclusion = << "success" >> -> "Success"
                [] run.conclusion \in { << "failure" >>, << "cancelled" >>,
                                        << "timed_out" >> } -> "Failure"
                [] OTHER -> "Unknown"
         ELSE "Running"

\* what the hosting service answers for one repo: the latest workflow run,
\* the latest release tag ("err", "none" or "some"), and compare_ahead_by
\* after .ok()
MonAnswers ==
    [ run : WorkflowRuns, tag : { "err", "none", "some" },
      cmp : { << >>, << 0 >>, << 1 >> } ]

\* the row of repo i after its queries
RowOf(i, a) ==
    LET release_tag == IF a.tag = "some" THEN << "v1" >> ELSE << >>
        ahead_by    == IF release_tag # << >> THEN a.cmp ELSE << >>
    IN  Row(REPOS[i], ActionOf(a.run), release_tag, ahead_by, FALSE)

\* the queries made for repo i
QueriesOf(i, a) ==
    { << i, "get_default_branch" >>, << i, "get_latest_workflow_run" >>,
      << i, "get_latest_release_tag" >> }
    \cup (IF a.tag = "some" THEN { << i, "compare_ahead_by" >> } ELSE {})

\* a filled row that is not green, released and level with its release
Odd(row) ==
    /\ ~ row.loading
    /\ << row.action, row.latest_release, row.ahead_by >>
          # << "Success", << "v1" >>, << 0 >> >>

\* the fleet the monitor is pointed at: few repos are out of line, and they
\* stay as they are or come back into line
OddWith(i, row) == odd \cup (IF Odd(row) THEN { << i, row >> } ELSE {})

Quiet(i, row) == Cardinality(OddWith(i, row)) <= MaxOdd

monFrame == << caller, argVars, mainVars, remote_tagged, errAssets, pushVars,
               preflighted, waited, waitStart, now, deadline, last_sizes,
               stable_count, ghostVars >>

\* run up to the first call of refresh_rows_incremental: the narration, the
\* client, the placeholder rows and their publication
MonStart(built) ==
    /\ pc = "m_start"
    /\ LET evs == << StepEv("Monitor", 0),
                     IF token THEN Ev("ok", "OK", 0, << >>)
                     ELSE Ev("error", "Missing GITHUB_TOKEN", 0, << >>) >>
       IN  /\ narr' = narr \cup Range(evs)
           /\ IF built
              THEN /\ gh' = TRUE
                   /\ rows' = placeholder_rows
                   /\ Send(ToUis(evs) \o << SetRepos(placeholder_rows) >>)
                   /\ show_loading' = TRUE
                   /\ pc' = "m_refresh"
                   /\ err' = err
              ELSE /\ Fail("failed to build HTTP client")
                   /\ Send(ToUis(evs))
                   /\ UNCHANGED << gh, rows, show_loading >>
    /\ UNCHANGED << monFrame, idx, calls, shutdown, slept, pass, odd >>

\* mutant: every pass marks the rows loading and publishes them
MonRefresh_AlwaysLoading ==
    /\ pc = "m_refresh"
    /\ pass' = pass + 1
    /\ idx' = 1
    /\ rows' = MarkLoading(rows)
    /\ Send(<< SetRepos(MarkLoading(rows)) >>)
    /\ pc' = "m_repo"
    /\ UNCHANGED << monFrame, gh, err, narr, calls, shutdown, slept, show_loading, odd >>

\* refresh_rows_incremental up to its loop: if show_loading, every row is
\* marked loading and the rows are published
MonRefresh ==
    /\ pc = "m_refresh"
    /\ pass' = pass + 1
    /\ idx' = 1
    /\ IF show_loading
       THEN /\ rows' = MarkLoading(rows)
            /\ Send(<< SetRepos(MarkLoading(rows)) >>)
       ELSE UNCHANGED << rows, chan, sent >>
    /\ pc' = "m_repo"
    /\ UNCHANGED << monFrame, gh, err, narr, calls, shutdown, slept, show_loading, odd >>

\* mutant: the rows are published once, when the pass is over
MonRepo_PublishAtEnd(a) ==
    /\ pc = "m_repo"
    /\ rows' = [ rows EXCEPT ![idx] = RowOf(idx, a) ]
    /\ calls' = calls \cup QueriesOf(idx, a)
    /\ odd' = OddWith(idx, RowOf(idx, a))
    /\ IF idx < NumMonRepos
       THEN idx' = idx + 1 /\ pc' = "m_repo" /\ Send(<< >>)
       ELSE idx' = idx /\ pc' = "m_passed"
                       /\ Send(<< SetRepos([ rows EXCEPT ![idx] = RowOf(idx, a) ]) >>)
    /\ UNCHANGED << monFrame, gh, err, narr, shutdown, slept, show_loading, pass >>

\* one iteration of the loop of refresh_rows_incremental: the queries for
\* the repo, its row (row.loading = show_loading at the start of the
\* iteration is overwritten before anything is published), the publication
MonRepo(a) ==
    /\ pc = "m_repo"
    /\ rows' = [ rows EXCEPT ![idx] = RowOf(idx, a) ]
    /\ calls' = calls \cup QueriesOf(idx, a)
    /\ odd' = OddWith(idx, RowOf(idx, a))
    /\ Send(<< SetRepos([ rows EXCEPT ![idx] = RowOf(idx, a) ]) >>)
    /\ IF idx < NumMonRepos
       THEN idx' = idx + 1 /\ pc' = "m_repo"
       ELSE idx' = idx /\ pc' = "m_passed"
    /\ UNCHANGED << monFrame, gh, err, narr, shutdown, slept, show_loading, pass >>

\* refresh_rows_incremental has returned Ok(()): the first call is followed
\* by the loop, a later one by reporter.ok("OK") if there is a credential
MonPassDone ==
    /\ pc = "m_passed"
    /\ IF ~ show_loading /\ token
       THEN Report(<< Ev("ok", "OK", 0, << >>) >>)
       ELSE Report(<< >>)
    /\ pc' = "m_while"
    /\ UNCHANGED << monFrame, idx, gh, err, calls, monVars >>

\* return Ok(()) of run
MonReturn == pc' = "m_done" /\ err' = err

\* while !shutdown.load(..) { let mut slept = Duration::ZERO; ..
MonWhile ==
    /\ pc = "m_while"
    /\ IF shutdown
       THEN MonReturn /\ slept' = slept
       ELSE pc' = "m_inner" /\ slept' = 0 /\ err' = err
    /\ UNCHANGED << monFrame, idx, gh, repVars, calls, rows, shutdown,
                    show_loading, pass, odd >>

\* mutant: the flag is not looked at between the slices
MonInner_NoCheck ==
    /\ pc = "m_inner"
    /\ pc' = IF slept < MonPollSlices THEN "m_sleep" ELSE "m_brk"
    /\ UNCHANGED << monFrame, idx, gh, err, repVars, calls, monVars >>

\* while slept < args.poll_interval && !shutdown.load(..)
MonInner ==
    /\ pc = "m_inner"
    /\ pc' = IF slept < MonPollSlices /\ ~ shutdown THEN "m_sleep" ELSE "m_brk"
    /\ UNCHANGED << monFrame, idx, gh, err, repVars, calls, monVars >>

\* std::thread::sleep(step); slept += step
MonSleep ==
    /\ pc = "m_sleep"
    /\ slept' = slept + 1
    /\ pc' = "m_inner"
    /\ UNCHANGED << monFrame, idx, gh, err, repVars, calls, rows, shutdown,
                    show_loading, pass, odd >>

\* if shutdown.load(..) { break }, else the next call of
\* refresh_rows_incremental, with show_loading = false
MonBreak ==
    /\ pc = "m_brk"
    /\ IF shutdown
       THEN MonReturn /\ show_loading' = show_loading
       ELSE /\ pass < MaxPasses
            /\ show_loading' = FALSE
            /\ pc' = "m_refresh"
            /\ err' = err
    /\ UNCHANGED << monFrame, idx, gh, repVars, calls, rows, shutdown, slept,
                    pass, odd >>

\* another thread stores true in the flag
SetShutdown ==
    /\ ~ shutdown
    /\ shutdown' = TRUE
    /\ UNCHANGED << monFrame, pc, idx, gh, err, repVars, calls, rows, slept,
                    show_loading, pass, odd >>

InitMon ==
    /\ InitCommon
    /\ pc = "m_start"
    /\ caller = "none"
    /\ idx = 1
    /\ dry_run = FALSE
    /\ resume = FALSE
    /\ token \in BOOLEAN
    /\ timeout = RunTimeout
    /\ gh = FALSE
    /\ now = 0
    /\ waitStart = 0
    /\ use_tui = TRUE
    /\ auto_exit = FALSE
    /\ chan = << >>
    /\ rxAlive = TRUE
    /\ sent = << >>
    /\ mpc = "off"
    /\ state = AppStateNew
    /\ ui_res = "none"
    /\ exit_code = -1
    /\ stderr = << >>

NextMon ==
    \/ \E built \in BOOLEAN : MonStart(built)
    \/ MonRefresh
    \/ \E a \in MonAnswers : Quiet(idx, RowOf(idx, a)) /\ MonRepo(a)
    \/ MonPassDone
    \/ MonWhile
    \/ MonInner
    \/ MonSleep
    \/ MonBreak
    \/ SetShutdown

\* a run of monitor::run with its Sender and its flag
SpecMon == InitMon /\ [][NextMon]_vars

----------------------------------------------------------------------------

(* Properties *)

Created == { i \in Repos : << i, "create_annotated_tag" >> \in calls }

Pushed == Range(pushed)

Called(i, op) == << i, op >> \in calls

\* C1: no create_annotated_tag and no push_tag call is made for any repo
\* before the preflight loop has run to its end for all seven repos; hence a
\* run that fails in preflight has created and pushed nothing.
C1_NoMutationBeforePreflightDone ==
    (Created \cup Pushed # {}) => preflighted = Repos

C1_Witness ==
    /\ Created # {}
    /\ Pushed # {}
    /\ preflighted = Repos

\* C2: an error ends the run: run has returned it, nothing more is called;
\* a run that has not failed ends only after the full protocol for every repo.
C2_ErrorsTerminal ==
    /\ err # "none" => pc = "failed"
    /\ pc = "failed" => err # "none" /\ ~ ENABLED Next
    /\ ~ ENABLED Next => pc \in { "done", "failed" }
    /\ pc = "done" =>
          /\ err = "none"
          /\ preflighted = Repos
          /\ \A i \in Repos :
                /\ TagsRepo(i) => i \in Pushed
                /\ ~ dry_run => i \in waited

C2_Witness ==
    /\ pc = "failed"
    /\ err = "timeout"
    /\ idx = 3
    /\ waited = { 1, 2 }

\* the poller, called on its own, has returned Ok
ReadyReturned == pc = "w_done" /\ err = "none"

LastObs == tickLog[Len(tickLog)]

\* C3 as stated: ready is reported on a tick only if that tick and the tick
\* immediately before it both saw every expected asset with size > 0 and the
\* two size maps are identical.
C3_ReadyNeedsTwoConsecutiveTicks ==
    ReadyReturned =>
        /\ Len(tickLog) = 2
        /\ FullObs(idx, tickLog[1])
        /\ FullObs(idx, tickLog[2])
        /\ tickLog[1].sizes = tickLog[2].sizes

\* C3 amended: ready is reported on a tick only if that tick saw every
\* expected asset with size > 0 and its size map is identical to that of the
\* latest earlier tick that did; ticks between the two that found no release
\* or a missing asset do not count.
C3_ReadyNeedsRepeatOfLatestFull ==
    ReadyReturned =>
        /\ tickLog # << >>
        /\ FullObs(idx, LastObs)
        /\ prevFull = << LastObs.sizes >>

C3_Witness ==
    /\ ReadyReturned
    /\ Len(tickLog) = 2
    /\ ~ FullObs(idx, tickLog[1])

\* C4: while every tick sees every expected asset with size > 0, the first
\* tick never reports ready, a tick whose map differs from the previous
\* tick's makes that map the baseline with the counter at 0, and ready is
\* reported exactly on the first tick whose map equals the previous tick's.
C4_AllPresentBackend ==
    (allFull /\ nTicks >= 1) =>
        IF nTicks >= 2 /\ tickLog[1].sizes = tickLog[2].sizes
        THEN ReadyReturned
        ELSE /\ ~ ReadyReturned
             /\ stable_count = 0
             /\ last_sizes = << LastObs.sizes >>

\* sizes 1, 2, 2: ready on the third tick
C4_Witness ==
    /\ allFull
    /\ nTicks = 3
    /\ ReadyReturned

\* an expected asset the last two ticks both saw, with the same size above 0
PresentAndStable(n) ==
    /\ Len(tickLog) = 2
    /\ \E sz \in 1..MaxSize :
          \A k \in 1..2 :
             tickLog[k].status = "ok" /\ << n, sz >> \in tickLog[k].sizes

C6_PerRepoDeadline ==
    /\ pc \in { "w_loop", "w_sleep" } => deadline = waitStart + timeout
    /\ err = "timeout" =>
          /\ pc = "failed"
          /\ now > waitStart + timeout
          /\ \A j \in Repos :
                j > idx =>
                   /\ j \notin Created \cup Pushed \cup waited
                   /\ ~ Called(j, "get_release_by_tag")

\* the wait of the third repo starts after the timeout has passed once since
\* the start of the run, and times out
C6_Witness ==
    /\ err = "timeout"
    /\ idx = 3
    /\ waitStart > timeout
    /\ waited = { 1, 2 }

AllRemoteTagged ==
    /\ preflighted = Repos
    /\ \A i \in Repos : already_remote_tagged(i)

LocalStateOps ==
    { "ensure_worktree_clean", "ensure_on_branch_and_synced_to_origin",
      "local_tag_commit", "ensure_tag_absent_local_and_remote" }

PreflightChecked(i) ==
    /\ Called(i, "is_dir")
    /\ Called(i, "ensure_origin_matches_expected")
    /\ Called(i, "fetch_origin")
    /\ Called(i, "remote_tag_commit")
    /\ ~ already_remote_tagged(i) =>
          /\ Called(i, "ensure_worktree_clean")
          /\ Called(i, "ensure_on_branch_and_synced_to_origin")
          /\ IF resume
             THEN Called(i, "local_tag_commit")
             ELSE Called(i, "ensure_tag_absent_local_and_remote")

\* C9: a dry run creates and pushes no tag, neither builds nor calls the
\* hosting-service client, runs the preflight checks, cannot fail once
\* preflight has passed, and ends after narrating for each repo the tagging
\* action and every expected asset name.
C9_DryRun ==
    dry_run =>
        /\ Created = {}
        /\ Pushed = {}
        /\ ~ gh
        /\ \A c \in calls : c[2] # "get_release_by_tag"
        /\ \A i \in preflighted : PreflightChecked(i)
        /\ preflighted = Repos => pc # "failed"
        /\ pc = "done" =>
              /\ err = "none"
              /\ preflighted = Repos
              /\ \A i \in Repos :
                    /\ StepEv("Tagging", i) \in narr
                    /\ DryTagEv(i) \in narr
                    /\ \A n \in Range(expected_assets(i)) :
                          \E e \in narr : e[3] = i /\ n \in Range(e[4])

C9_Witness ==
    /\ dry_run
    /\ ~ token
    /\ pc = "done"

\* C10: a tag is created or pushed for a repo only after, for every repo
\* before it in the declared order, the tag step is over and the asset wait
\* has returned ready; pushes happen in the declared order.
C10_Sequential ==
    /\ repos_in_order[NumRepos] = "installer-iso"
    /\ \A j \in Created \cup Pushed :
          \A i \in 1..(j - 1) :
             /\ i \in waited
             /\ TagsRepo(i) => i \in Pushed
    /\ \A k \in 1..(Len(pushed) - 1) : pushed[k] < pushed[k + 1]

C10_Witness ==
    /\ NumRepos \in Pushed
    /\ waited = 1..(NumRepos - 1)

\* the operations of git.rs that run calls: none of them deletes a tag
GitOps ==
    { "is_dir", "ensure_origin_matches_expected", "fetch_origin",
      "remote_tag_commit", "ensure_worktree_clean",
      "ensure_on_branch_and_synced_to_origin", "local_tag_commit",
      "ensure_tag_absent_local_and_remote", "create_annotated_tag", "push_tag" }

\* C11: when create_annotated_tag or push_tag fails for a repo, run has
\* halted with that error and nothing was created or pushed for a later
\* repo; no step of a run takes back a push made earlier or calls anything
\* but the non-deleting git operations and the release query.
C11_NoRollback ==
    /\ [](err \in { "git tag failed", "git push failed" } =>
            /\ pc = "failed"
            /\ \A j \in Repos : j > idx => j \notin Created \cup Pushed
            /\ \A j \in 1..(idx - 1) : TagsRepo(j) => j \in Pushed)
    /\ [][ /\ Len(pushed') >= Len(pushed)
           /\ SubSeq(pushed', 1, Len(pushed)) = pushed
           /\ calls \subseteq calls'
           /\ \A c \in calls' : c[2] \in GitOps \cup { "get_release_by_tag" }
           /\ pc = "failed" => pc' = "failed" ]_vars

\* the push of the third repo fails after two repos were pushed
C11_Witness ==
    /\ err = "git push failed"
    /\ idx = 3
    /\ pushed = << 1, 2, 3 >>

\* the boolean preflight recorded for repo i
Recorded(i, b) == MapHas(remote_tagged, i) /\ MapGet(remote_tagged, i) = b

\* the operations that ask the remote about tags
RemoteQueryOps ==
    { "fetch_origin", "remote_tag_commit", "ensure_tag_absent_local_and_remote" }

\* C12: a tag is created or pushed only for a repo preflight recorded as not
\* tagged, a finished non-dry run has pushed every such repo and no other,
\* and once preflight is over the snapshot is not changed and the remote is
\* not asked about tags again.
C12_SnapshotDecides ==
    /\ [](/\ \A i \in Created \cup Pushed : Recorded(i, FALSE)
          /\ (pc = "done" /\ ~ dry_run) =>
                \A i \in Repos : Recorded(i, FALSE) <=> i \in Pushed)
    /\ [][ preflighted = Repos =>
              /\ remote_tagged' = remote_tagged
              /\ \A c \in calls' \ calls : c[2] \notin RemoteQueryOps ]_vars

\* a resume run that found some repos tagged and pushed the others
C12_Witness ==
    /\ pc = "done"
    /\ ~ dry_run
    /\ Recorded(1, TRUE)
    /\ Recorded(2, FALSE)
    /\ 2 \in Pushed

\* C13: when preflight finds the tag of a repo on the remote, a non-resume
\* run has failed right there with the already-released error, and a resume
\* run makes none of the clean-worktree, branch, sync and local-tag checks
\* for that repo and has gone on past it.
C13_RemoteTagFound ==
    \A i \in Repos :
       Recorded(i, TRUE) =>
          /\ \A op \in LocalStateOps : ~ Called(i, op)
          /\ IF resume
             THEN /\ i \in preflighted
                  /\ err = "already has remote tag" => idx # i
                  /\ (pc \in { "pf_dir", "pf_origin", "pf_fetch", "pf_remote",
                               "pf_clean", "pf_sync", "pf_tag" }) => idx > i
             ELSE /\ pc = "failed"
                  /\ err = "already has remote tag"
                  /\ idx = i
                  /\ i \notin preflighted

\* a resume run found the tag of the first repo on the remote and is
\* checking the worktree of the second
C13_Witness ==
    /\ resume
    /\ Recorded(1, TRUE)
    /\ Called(2, "ensure_worktree_clean")

\* C14: the tag check of preflight is made of a repo recorded as not tagged
\* remotely; in a resume run it passes when there is no local tag or the
\* local tag resolves to HEAD and fails with the tag-conflict error when the
\* local tag resolves to another commit; in a non-resume run it fails
\* whenever the tag exists locally or remotely and passes when it is absent.
C14_TagChecks ==
    [][ \A res \in ResumeTagResults \cup AbsentTagResults :
          PfTag(res) =>
             /\ Recorded(idx, FALSE)
             /\ IF resume
                THEN /\ res \in { "none", "head" } =>
                           idx \in preflighted' /\ pc' # "failed"
                     /\ res = "other" =>
                           /\ pc' = "failed"
                           /\ err' = "local tag does not point at HEAD"
                           /\ idx \notin preflighted'
                ELSE /\ res = "none" => idx \in preflighted' /\ pc' # "failed"
                     /\ res \in { "local", "remote" } =>
                           /\ pc' = "failed"
                           /\ err' \in { "already has local tag",
                                          "already has remote tag" }
                           /\ idx \notin preflighted'
             /\ res = "git failed" => pc' = "failed" ]_vars

\* a resume run accepted the local tag of the first repo and refused that of
\* the second
C14_Witness ==
    /\ resume
    /\ Called(1, "local_tag_commit")
    /\ 1 \in preflighted
    /\ idx = 2
    /\ err = "local tag does not point at HEAD"

\* the UI loop is running
InLoop == mpc \in { "drain", "key", "fin", "draw" }

\* handle_ui_event applied to the events of a sequence, one by one
RECURSIVE ApplyAll(_, _)
ApplyAll(st, evs) ==
    IF evs = << >> THEN st
    ELSE ApplyAll(handle_ui_event(st, Head(evs)), Tail(evs))

\* C15: while the consumer is alive the pending events are the events sent
\* and not yet received, in the order sent, and the consumer's state is
\* handle_ui_event applied, in the order sent, to the events received; with
\* nothing pending it is the result of applying all the events sent.
C15_Fifo ==
    (InLoop /\ rxAlive) =>
        LET n == Len(sent) - Len(chan)
        IN  /\ n >= 0
            /\ chan = SubSeq(sent, n + 1, Len(sent))
            /\ state = [ ApplyAll(AppStateNew, SubSeq(sent, 1, n))
                           EXCEPT !.focus = state.focus,
                                  !.help_scroll = state.help_scroll ]

\* three events were sent and all were received: the step, then the error
C15_Witness ==
    /\ InLoop
    /\ chan = << >>
    /\ Len(sent) = 3
    /\ sent[3].type = "SetError"
    /\ state.step_title = << "s", "1" >>
    /\ state.error_msg = << "boom" >>

Receives == mpc = "drain" /\ chan # << >> /\ chan' = Tail(chan)

\* the error status is set before the step and not after it
ErrorCleared == state.error_msg # << >> /\ state'.error_msg = << >>

\* C19 as stated: a set error status is cleared only by applying a
\* StepChanged or a MarkOk event.
C19_ErrorSticky ==
    [][ ErrorCleared =>
          Receives /\ Head(chan).type \in { "SetStep", "SetOk" } ]_vars

\* C19 amended: a set error status is cleared only by applying a
\* StepChanged, a MarkOk or a Finished event with ok = true; no BodyUpdated,
\* RepoRowsUpdated or Finished event with ok = false, no key press and no
\* other step of the loop clears it.
C19_ErrorStickyButForFinishedOk ==
    [][ ErrorCleared =>
          /\ Receives
          /\ \/ Head(chan).type \in { "SetStep", "SetOk" }
             \/ Head(chan) = Finished(TRUE) ]_vars

\* an error, then a body text and the end of a failed run: the error stays
C19_Witness ==
    /\ InLoop
    /\ chan = << >>
    /\ Len(sent) = 3
    /\ sent[1].type = "SetError"
    /\ sent[2].type = "UpdateBody"
    /\ sent[3] = Finished(FALSE)
    /\ state.error_msg = << "boom" >>

\* C20: applying a StepChanged event, like applying a MarkOk event, leaves
\* the error status cleared.
C20_StepClearsError ==
    [][ (Receives /\ Head(chan).type \in { "SetStep", "SetOk" }) =>
          state'.error_msg = << >> ]_vars

\* the errors run returns
RunErrors ==
    { "invalid version", "can't infer repos root", "repo directory not found",
      "origin remote doesn't look like expected", "git fetch origin failed",
      "failed to query remote tag", "already has remote tag",
      "has uncommitted changes", "detached HEAD", "failed to resolve",
      "not synced", "local tag does not point at HEAD", "already has local tag",
      "git failed", "missing GITHUB_TOKEN", "failed to build HTTP client",
      "git tag failed", "git push failed", "timeout", "api" }

\* C16: whatever the consumer does (keeps up, lags, has stopped), the worker
\* thread has a step to take until it has ended, and it ends with the result
\* of run and Finished as the last event sent; a send hands the event to the
\* channel while the Receiver lives and drops it afterwards; no step of the
\* worker writes anything of the main thread.
C16_SendNeverBlocks ==
    /\ [](pc # "returned" => ENABLED WorkerStep)
    /\ [](pc = "returned" =>
             /\ err \in RunErrors \cup { "none" }
             /\ sent[Len(sent)] = Finished(err = "none"))
    /\ [][ sent' # sent =>
             /\ Len(sent') > Len(sent)
             /\ SubSeq(sent', 1, Len(sent)) = sent
             /\ chan' = IF rxAlive
                        THEN chan \o SubSeq(sent', Len(sent) + 1, Len(sent'))
                        ELSE << >>
             /\ UNCHANGED mainVars ]_vars

\* the operator quit before anything was received; the run went on to tag
\* and push every repo, and the worker thread has ended
C16_Witness ==
    /\ ~ rxAlive
    /\ ui_res = "ok"
    /\ state = AppStateNew
    /\ chan = << >>
    /\ pc = "returned"
    /\ err = "none"
    /\ Len(pushed) = NumRepos
    /\ waited = Repos

\* C18: the process exits only after the worker thread has ended, and when
\* the worker's result is an error, that error has been written to stderr
\* and the exit code is not zero.
C18_WorkerErrorWritten ==
    mpc = "exit" =>
        /\ pc = "returned"
        /\ ui_res # "none"
        /\ err # "none" =>
              /\ exit_code # 0
              /\ \E k \in 1..Len(stderr) : stderr[k] = err

\* the positions of the Finished events in a sequence of events
FinishedAt(s) == { k \in 1..Len(s) : s[k].type = "Finished" }

\* C21: with the UI, no Finished event is sent while the command runs; once
\* the worker thread has ended exactly one was sent, it is the last event
\* sent, and its ok flag is true exactly when the command returned Ok; after
\* it nothing more is sent.
C21_OneFinishedLast ==
    /\ [](/\ pc # "returned" => FinishedAt(sent) = {}
          /\ pc = "returned" =>
                /\ FinishedAt(sent) = { Len(sent) }
                /\ sent[Len(sent)].ok = (err = "none"))
    /\ [][ /\ pc = "returned" => sent' = sent
           /\ (pc = "done" /\ pc' = "returned") => sent'[Len(sent')] = Finished(TRUE)
           /\ (pc = "failed" /\ pc' = "returned") => sent'[Len(sent')] = Finished(FALSE)
         ]_vars

\* a wait timed out: the failure was narrated, then Finished with ok = false
C21_Witness ==
    /\ pc = "returned"
    /\ err = "timeout"
    /\ Len(sent) > 3
    /\ sent[Len(sent) - 1] = SetError("timeout")
    /\ sent[Len(sent)] = Finished(FALSE)

\* C22: run fails with the version error only as its first step, and a run
\* that failed so has narrated nothing, inspected no directory, made no git
\* call and no call of the hosting service, and built no client.
C22_BadVersionBeforeIo ==
    /\ [](err = "invalid version" =>
            /\ pc = "failed"
            /\ narr = {}
            /\ calls = {}
            /\ ~ gh
            /\ preflighted = {}
            /\ pushed = << >>
            /\ nTicks = 0)
    /\ [][ (err' = "invalid version" /\ err # err') =>
             /\ pc = "parse"
             /\ narr = {} /\ narr' = {}
             /\ calls = {} /\ calls' = {} ]_vars

C22_Witness ==
    /\ pc = "failed"
    /\ err = "invalid version"
    /\ narr = {}

\* the repos the apply loop has left behind
Passed == IF pc \in { "complete", "done" } THEN Repos ELSE 1..(idx - 1)

\* C23: in a non-dry resume run, a repo recorded as tagged on the remote is
\* neither created nor pushed, its iteration goes from the skip to the asset
\* wait, and the loop is at a later repo (or past the last) only when the
\* wait for that repo has returned Ok.
C23_SkippedRepoStillWaits ==
    /\ []((~ dry_run /\ resume /\ preflighted = Repos) =>
            \A j \in Repos : Recorded(j, TRUE) =>
               /\ ~ Called(j, "create_annotated_tag")
               /\ ~ Called(j, "push_tag")
               /\ j \in Passed => j \in waited /\ Called(j, "get_release_by_tag"))
    /\ [][ (~ dry_run /\ resume /\ Recorded(idx, TRUE)) =>
             /\ pc = "a_tag" => pc' \in { "a_tag", "a_assets" } /\ idx' = idx
             /\ pc = "a_assets" => pc' \in { "a_assets", "w_call" } /\ idx' = idx
             /\ (pc \in { "w_call", "w_loop", "w_sleep" } /\ idx' # idx) =>
                   idx \in waited' ]_vars

\* the first repo was skipped and waited for; the second is being tagged
C23_Witness ==
    /\ ~ dry_run
    /\ resume
    /\ Recorded(1, TRUE)
    /\ Recorded(2, FALSE)
    /\ 1 \in waited
    /\ pc = "a_local"
    /\ idx = 2
    /\ pushed = << >>

\* a call of op for the current repo is made by the step
Calls(op) == << idx, op >> \in calls' \ calls

\* C28: in a non-dry run, for a repo the snapshot does not mark as tagged,
\* the local tag is looked up; create_annotated_tag is called only right
\* after a lookup that found no tag, a lookup that found the tag goes
\* straight to the push, and after the lookup or the successful create the
\* next call is push_tag.
C28_CreateOnlyIfAbsentLocally ==
    [][ /\ (ALocalTag("none") /\ pc' # pc) => pc' = "a_create"
        /\ ((\E res \in FoundTags : ALocalTag(res)) /\ pc' # pc) => pc' = "a_push"
        /\ Calls("create_annotated_tag") => pc = "a_create"
        /\ pc' = "a_create" => pc \in { "a_local", "a_create" }
        /\ pc = "a_create" =>
              \/ pc' = "a_create" /\ calls' = calls
              \/ Calls("create_annotated_tag") /\ pc' \in { "a_push", "failed" }
        /\ pc = "a_push" =>
              \/ pc' = "a_push" /\ calls' = calls
              \/ Calls("push_tag")
        /\ pc \in { "a_local", "a_create", "a_push" } =>
              ~ dry_run /\ ~ already_remote_tagged(idx)
        /\ (pc = "a_tag" /\ ~ dry_run /\ ~ already_remote_tagged(idx)) =>
              pc' \in { "a_tag", "a_local" } ]_vars

\* the tag of the first repo was there already: pushed without a create;
\* the tag of the second was not: created, then pushed
C28_Witness ==
    /\ pushed = << 1, 2 >>
    /\ ~ Called(1, "create_annotated_tag")
    /\ Called(1, "local_tag_commit")
    /\ Called(2, "create_annotated_tag")
    /\ pc = "a_assets"

\* the step is a poll tick; what it observed is the last entry of tickLog'
Ticks == pc = "w_loop" /\ nTicks' = nTicks + 1

Seen == tickLog'[Len(tickLog')]

\* C29: a tick on which the release is absent makes the fetch and nothing
\* else: stable_count, last_sizes and the deadline are what they were, no
\* result is returned, and the poller goes to its sleep.
C29_AbsentTickChangesNothing ==
    [][ (Ticks /\ Seen.status = "absent") =>
          /\ stable_count' = stable_count
          /\ last_sizes' = last_sizes
          /\ deadline' = deadline
          /\ err' = err
          /\ waited' = waited
          /\ pc' = "w_sleep" ]_vars

\* every asset was seen, then the release was absent: the sizes are kept
C29_Witness ==
    /\ Len(tickLog) = 2
    /\ FullObs(idx, tickLog[1])
    /\ tickLog[2].status = "absent"
    /\ last_sizes = << tickLog[1].sizes >>
    /\ pc = "w_sleep"

\* C30: after a tick that got a release in which some expected asset is
\* absent or has size 0, stable_count is 0, nothing is returned and the
\* poller goes to its sleep.
C30_MissingTickCounterZero ==
    [][ (Ticks /\ Seen.status = "ok" /\ ~ FullyPresent(idx, Seen.sizes)) =>
          /\ stable_count' = 0
          /\ idx \notin waited'
          /\ err' = err
          /\ pc' = "w_sleep" ]_vars

\* every asset was seen, then one of them was missing
C30_Witness ==
    /\ Len(tickLog) = 2
    /\ FullObs(idx, tickLog[1])
    /\ tickLog[2].status = "ok"
    /\ ~ FullyPresent(idx, tickLog[2].sizes)
    /\ last_sizes = << tickLog[1].sizes >>
    /\ stable_count = 0
    /\ pc = "w_sleep"

\* the fields of AppState that handle_ui_event writes
EventFields(st) ==
    << st.step_title, st.step_body, st.ok_msg, st.error_msg, st.repos, st.finished >>

\* C27: the loop leaves its drain only with the queue empty, it comes to the
\* draw only from a completed drain (through the key poll and the auto-exit
\* check, neither of which applies an event), and events are applied only
\* inside the drain; so at the draw the state is the result of applying, in
\* order, every event sent up to the end of the drain, and what is pending
\* was sent after the drain had found the queue empty.
C27_DrawAfterFullDrain ==
    /\ [][ /\ (mpc = "drain" /\ mpc' # "drain") =>
                 chan = << >> /\ mpc' = "key" /\ state' = state
           /\ (mpc' = "key" /\ mpc # "key") => mpc = "drain"
           /\ (mpc' = "fin" /\ mpc # "fin") => mpc = "key"
           /\ (mpc' = "draw" /\ mpc # "draw") => mpc = "fin"
           /\ EventFields(state') # EventFields(state) => Receives
           /\ (mpc \in { "key", "fin", "draw" } /\ chan' # chan /\ rxAlive') =>
                 /\ Len(sent') > Len(sent)
                 /\ chan' = chan \o SubSeq(sent', Len(sent) + 1, Len(sent')) ]_vars
    /\ []((mpc = "draw" /\ rxAlive) =>
            /\ Len(chan) <= Len(sent)
            /\ EventFields(state) =
                 EventFields(ApplyAll(AppStateNew,
                                      SubSeq(sent, 1, Len(sent) - Len(chan)))))

\* three events were sent and applied, and the loop is at its draw: the
\* frame shows the state after the last of them
C27_Witness ==
    /\ mpc = "draw"
    /\ chan = << >>
    /\ Len(sent) = 3
    /\ sent[1] = SetError("boom")
    /\ sent[2] = UpdateBody(<< "u" >>)
    /\ sent[3] = SetOk("fine")
    /\ state.ok_msg = "fine"
    /\ state.error_msg = << >>

\* the step begins a refresh pass: refresh_rows_incremental up to its loop
PassBegins == pc = "m_refresh" /\ pc' = "m_repo"

AllLoading(rs) == \A i \in DOMAIN rs : rs[i].loading

NoneLoading(rs) == \A i \in DOMAIN rs : ~ rs[i].loading

\* the step sends exactly the event ev
SendsOnly(ev) == sent' = Append(sent, ev)

\* C24 as stated: at the start of every refresh pass, the initial one and
\* every later one, all rows are marked loading and that snapshot is
\* published before any repo is queried.
C24_EveryPassShowsLoading ==
    [][ PassBegins =>
          /\ AllLoading(rows')
          /\ SendsOnly(SetRepos(rows'))
          /\ calls' = calls ]_vars

\* C24 amended: at the start of the initial pass all rows are marked loading
\* and that snapshot is published before any repo is queried; a later pass
\* begins with no row loading, marks none and publishes nothing before its
\* first repo is queried, and no row is loading while it runs.
C24_OnlyFirstPassShowsLoading ==
    /\ [][ PassBegins =>
             /\ calls' = calls
             /\ idx' = 1
             /\ IF pass = 0
                THEN /\ calls = {}
                     /\ AllLoading(rows')
                     /\ SendsOnly(SetRepos(rows'))
                ELSE /\ NoneLoading(rows)
                     /\ rows' = rows
                     /\ sent' = sent ]_vars
    /\ [](pass >= 2 => NoneLoading(rows))

\* the second pass is at its third repo
C24_Witness ==
    /\ pass = 2
    /\ pc = "m_repo"
    /\ idx = 3
    /\ NoneLoading(rows)
    /\ sent[Len(sent)] = SetRepos(rows)

\* the step is an iteration of the loop of refresh_rows_incremental
RepoStep == pc = "m_repo" /\ (idx' # idx \/ pc' # pc)

\* C25: a pass takes the repos in the declared order, from the first to the
\* last; the iteration for a repo queries that repo only and then publishes
\* exactly one snapshot, the rows as they now are, in which that repo's row
\* is not loading and every other row is what it was before the iteration;
\* no snapshot is published anywhere else in a pass.
C25_OneSnapshotPerRepo ==
    [][ /\ RepoStep =>
             /\ \A c \in calls' \ calls : c[1] = idx
             /\ << idx, "get_latest_workflow_run" >> \in calls'
             /\ SendsOnly(SetRepos(rows'))
             /\ rows'[idx].name = REPOS[idx]
             /\ ~ rows'[idx].loading
             /\ \A j \in 1..NumMonRepos : j # idx => rows'[j] = rows[j]
             /\ IF idx < NumMonRepos
                THEN idx' = idx + 1 /\ pc' = "m_repo"
                ELSE pc' = "m_passed"
        /\ (pc \in { "m_passed", "m_while", "m_inner", "m_sleep", "m_brk" }) =>
             /\ rows' = rows
             /\ \A k \in (Len(sent) + 1)..Len(sent') : sent'[k].type # "SetRepos"
        /\ (pc' = "m_repo" /\ pc # "m_repo") => PassBegins /\ idx' = 1 ]_vars

\* in the second pass the first repo has turned red; the rows of the repos
\* not reached yet still show the first pass
C25_Witness ==
    /\ pass = 2
    /\ pc = "m_repo"
    /\ idx = 2
    /\ rows[1].action = "Failure"
    /\ \A j \in 2..NumMonRepos : rows[j].action = "Success"
    /\ sent[Len(sent)] = SetRepos(rows)
    /\ sent[Len(sent) - 1].type = "SetRepos"
    /\ sent[Len(sent) - 1].rows[1].action = "Success"

\* the monitor is between two passes
Sleeping == pc \in { "m_inner", "m_sleep", "m_brk" }

\* C26: between passes the monitor sleeps one slice at a time and looks at
\* the flag after every slice; with the flag set, the slice under way is
\* the last one, no pass is begun, nothing is queried or published, and run
\* returns Ok; run returns only with the flag set.
C26_ShutdownEndsSleep ==
    /\ [][ /\ (pc = "m_sleep" /\ pc' # pc) => pc' = "m_inner" /\ slept' = slept + 1
           /\ (pc' = "m_sleep" /\ pc' # pc) => pc = "m_inner" /\ ~ shutdown
           /\ (shutdown /\ Sleeping) =>
                 /\ pc = "m_sleep" => pc' \in { "m_sleep", "m_inner" }
                 /\ pc = "m_inner" => pc' \in { "m_inner", "m_brk" }
                 /\ pc = "m_brk" => pc' \in { "m_brk", "m_done" }
                 /\ pass' = pass
                 /\ calls' = calls
                 /\ sent' = sent
                 /\ err' = "none" ]_vars
    /\ [](pc = "m_done" => shutdown /\ err = "none")

\* the flag was set during the first slice after the first pass: the sleep
\* ended there and run returned
C26_Witness ==
    /\ pc = "m_done"
    /\ shutdown
    /\ pass = 1
    /\ slept = 1
    /\ err = "none"

\* C31: the checks of a repo in preflight are made in the order directory,
\* origin, fetch, remote-tag query (with the already-tagged handling),
\* clean worktree, branch and sync, tag check; a step makes the call of its
\* check and of no later one; a check that fails ends the run with an error
\* of that check, after which nothing is called; a check that passes is
\* followed by the next one, or, after the last one or a resume skip, by the
\* first check of the next repo.
C31_PreflightOrder ==
  [][
    LET order == << "pf_dir", "pf_origin", "pf_fetch", "pf_remote", "pf_clean",
                    "pf_sync", "pf_tag" >>
        pos(c) == CHOOSE k \in 1..Len(order) : order[k] = c
        op(c) ==
            CASE c = "pf_dir"    -> "is_dir"
              [] c = "pf_origin" -> "ensure_origin_matches_expected"
              [] c = "pf_fetch"  -> "fetch_origin"
              [] c = "pf_remote" -> "remote_tag_commit"
              [] c = "pf_clean"  -> "ensure_worktree_clean"
              [] c = "pf_sync"   -> "ensure_on_branch_and_synced_to_origin"
              [] OTHER -> IF resume THEN "local_tag_commit"
                          ELSE "ensure_tag_absent_local_and_remote"
        errs(c) ==
            CASE c = "pf_dir"    -> { "repo directory not found" }
              [] c = "pf_origin" -> { "origin remote doesn't look like expected" }
              [] c = "pf_fetch"  -> { "git fetch origin failed" }
              [] c = "pf_remote" -> { "failed to query remote tag",
                                      "already has remote tag" }
              [] c = "pf_clean"  -> { "has uncommitted changes" }
              [] c = "pf_sync"   -> { "git fetch origin failed", "detached HEAD",
                                      "failed to resolve", "not synced" }
              [] OTHER -> { "git failed", "local tag does not point at HEAD",
                            "already has local tag", "already has remote tag" }
    IN      /\ (pc \in Range(order) /\ pc' # pc) =>
                 /\ calls' = calls \cup { << idx, op(pc) >> }
                 /\ \A k \in (pos(pc) + 1)..Len(order) :
                       << idx, op(order[k]) >> \notin calls'
                 /\ \/ pc' = "failed" /\ err' \in errs(pc) /\ idx' = idx
                    \/ /\ err' = "none"
                       /\ pos(pc) < Len(order)
                       /\ pc' = order[pos(pc) + 1]
                       /\ idx' = idx
                       /\ pc = "pf_remote" => << idx, FALSE >> \in remote_tagged'
                    \/ /\ err' = "none"
                       /\ \/ pc = "pf_tag"
                          \/ pc = "pf_remote" /\ resume
                                              /\ << idx, TRUE >> \in remote_tagged'
                       /\ IF idx < NumRepos
                          THEN idx' = idx + 1 /\ pc' = "pf_dir"
                          ELSE pc' = "token"
            /\ pc = "failed" => pc' = "failed" /\ calls' = calls /\ err' = err
  ]_vars

\* the second repo is clean but behind its remote branch: its tag check was
\* never made
C31_Witness ==
    /\ pc = "failed"
    /\ err = "not synced"
    /\ idx = 2
    /\ Called(2, "ensure_worktree_clean")
    /\ Called(2, "ensure_on_branch_and_synced_to_origin")
    /\ ~ Called(2, "local_tag_commit")
    /\ ~ Called(2, "ensure_tag_absent_local_and_remote")

\* C32: a non-dry run without a credential fails at the credential check:
\* preflight has run to its end for all repos, the apply loop is never
\* entered, no tag is created or pushed, no client is built and the hosting
\* service is not called; the run fails with this error in no other case.
C32_NoCredentialNoApply ==
    /\ [](err = "missing GITHUB_TOKEN" =>
            /\ ~ dry_run /\ ~ token
            /\ pc = "failed"
            /\ preflighted = Repos
            /\ Created \cup Pushed = {}
            /\ ~ gh
            /\ \A c \in calls : c[2] \notin { "create_annotated_tag", "push_tag",
                                              "get_release_by_tag" })
    /\ []((~ dry_run /\ ~ token) =>
            /\ pc \notin { "a_tag", "a_local", "a_create", "a_push", "a_assets",
                           "w_call", "w_loop", "w_sleep", "complete", "done" }
            /\ \A e \in narr : e[2] # "Tagging")
    /\ [][ (pc = "token" /\ ~ dry_run /\ ~ token /\ pc' # pc) =>
             pc' = "failed" /\ err' = "missing GITHUB_TOKEN" /\ calls' = calls ]_vars

C32_Witness ==
    /\ err = "missing GITHUB_TOKEN"
    /\ pc = "failed"
    /\ preflighted = Repos
    /\ resume
    /\ Recorded(1, TRUE)
    /\ Recorded(2, FALSE)


\* C33: from the moment the apply loop starts the snapshot holds exactly one
\* entry for each of the seven repos, so the lookup of the repo being applied
\* finds an entry and its default (false) is never what the loop reads.
C33_SnapshotComplete ==
    (pc \in { "a_tag", "a_local", "a_create", "a_push", "a_assets",
              "w_call", "w_loop", "w_sleep", "complete", "done" }) =>
        /\ Cardinality(Repos) = 7
        /\ \A i \in Repos :
              /\ MapHas(remote_tagged, i)
              /\ Cardinality({ p \in remote_tagged : p[1] = i }) = 1
              /\ already_remote_tagged(i) = MapGet(remote_tagged, i)
        /\ \A p \in remote_tagged : p[1] \in Repos /\ p[2] \in BOOLEAN

C33_Witness ==
    /\ pc = "a_tag"
    /\ idx = 1
    /\ resume
    /\ Recorded(1, TRUE)
    /\ Recorded(2, FALSE)
    /\ Recorded(7, TRUE)
    /\ Cardinality(remote_tagged) = 7


\* C34: in a run without --resume that has passed preflight the snapshot is
\* false for every repo; such a run, when it is not a dry run, pushes the tags
\* in the declared order without skipping a repo, each at most once, and a
\* run that succeeds has pushed all seven.
C34_AllPushedInOrder ==
    /\ (~ resume /\ preflighted = Repos) =>
          \A i \in Repos : Recorded(i, FALSE)
    /\ (~ resume /\ ~ dry_run) =>
          /\ Len(pushed) <= 7
          /\ \A k \in 1 .. Len(pushed) : pushed[k] = k
          /\ (pc \in { "a_tag", "a_local", "a_create", "a_push" }) =>
                Len(pushed) = idx - 1
          /\ (pc \in { "a_assets", "w_call", "w_loop", "w_sleep" }) =>
                Len(pushed) = idx
          /\ (pc = "done") => pushed = << 1, 2, 3, 4, 5, 6, 7 >>

C34_Witness ==
    /\ pc = "done"
    /\ err = "none"
    /\ ~ resume
    /\ ~ dry_run
    /\ pushed = << 1, 2, 3, 4, 5, 6, 7 >>
    /\ \A i \in Repos : Recorded(i, FALSE) /\ Called(i, "push_tag")


\* C35: once the worker thread has ended after a failed command, the last
\* three events it sent are SetStep with the title Failed, SetError with the
\* text of the command's error and Finished with ok = false, in this order;
\* applying everything sent leaves the error status set to that text and
\* finished = Some(false), and so does the consumer that has received all of
\* it.
C35_FailureTail ==
    (pc = "returned" /\ err # "none") =>
        LET n == Len(sent)
        IN  /\ n >= 3
            /\ sent[n - 2].type = "SetStep"
            /\ sent[n - 2].title[1] = "Failed"
            /\ sent[n - 1] = SetError(err)
            /\ sent[n] = Finished(FALSE)
            /\ \A k \in 1 .. n - 3 :
                  sent[k].type = "SetStep" => sent[k].title[1] # "Failed"
            /\ ApplyAll(AppStateNew, sent).error_msg = << err >>
            /\ ApplyAll(AppStateNew, sent).finished = << FALSE >>
            /\ ApplyAll(AppStateNew, sent).step_title[1] = "Failed"
            /\ (InLoop /\ rxAlive /\ chan = << >>) =>
                  /\ state.error_msg = << err >>
                  /\ state.finished = << FALSE >>
                  /\ state.step_title[1] = "Failed"

\* the consumer has drained the tail of a run that failed in preflight
C35_Witness ==
    /\ pc = "returned"
    /\ err = "not synced"
    /\ InLoop
    /\ rxAlive
    /\ chan = << >>
    /\ sent[Len(sent)] = Finished(FALSE)
    /\ sent[Len(sent) - 1] = SetError("not synced")
    /\ state.error_msg = << "not synced" >>
    /\ state.finished = << FALSE >>


====
